---- MODULE Spec2Model ----
(***************************************************************************)
(* Verification model of the cricket dashboard: the statistics functions   *)
(* (lib/statsUtils), the analytics engine singleton (services/             *)
(* analyticsEngine) and the localStorage-backed DataService (services/     *)
(* dataService).                                                           *)
(*                                                                         *)
(* JavaScript numbers are modelled as exact rationals n/d together with    *)
(* the non-finite values NaN, Infinity and -Infinity, and the JSON values  *)
(* null and undefined (an absent property).  Negative zero is identified   *)
(* with zero, and Math.sqrt is computed to 1/SqrtPrecision.                *)
(***************************************************************************)
EXTENDS Integers, Sequences, FiniteSets, TLC

VARIABLES
  call,        \* statsUtils: the last call made, [fn, args]
  ret,         \* statsUtils / engine: the value that call returned
  analyticsEngineInstance, \* the module-level singleton: Null or [players]
  held,        \* client -> Null or the roster its engine reference was obtained for
  localStorage,\* [players, settings, history]: each Null or the stored JSON value
  cache,       \* DataService.cache entry for STORAGE_KEY: Null or [data, timestamp]
  now,         \* Date.now()
  nextId,      \* number of ids generateId has handed out
  procs,       \* in-flight async DataService calls: slot -> frame
  calls,       \* number of DataService calls started so far
  quotaFull,   \* TRUE while localStorage.setItem throws (quota exceeded)
  exported,    \* the string the last exportData returned to its caller
  provider     \* the PlayerProvider's React state, Null while not mounted

vars == <<call, ret, analyticsEngineInstance, held, localStorage, cache, now,
          nextId, procs, calls, quotaFull, exported, provider>>

Null == [k |-> "none"]
\* a present value, where a variable may also be Null
Some(v) == [k |-> "some", v |-> v]

----------------------------------------------------------------------------
(* JavaScript number semantics *)

Abs(i) == IF i < 0 THEN -i ELSE i

RECURSIVE GCD(_, _)
GCD(a, b) == IF b = 0 THEN a ELSE GCD(b, a % b)

\* the rational n/d (d # 0) in lowest terms with a positive denominator
Fin(n, d) ==
  LET g == GCD(Abs(n), Abs(d))
      s == IF d < 0 THEN -1 ELSE 1
  IN  [k |-> "fin", n |-> (s * n) \div g, d |-> (s * d) \div g]

Num(i) == [k |-> "fin", n |-> i, d |-> 1]
NaN == [k |-> "nan", n |-> 0, d |-> 1]
Infinity == [k |-> "inf", n |-> 1, d |-> 1]
NegInfinity == [k |-> "inf", n |-> -1, d |-> 1]
JsNull == [k |-> "null", n |-> 0, d |-> 1]
Undefined == [k |-> "undef", n |-> 0, d |-> 1]

IsFin(x) == x.k = "fin"
IsNaN(x) == x.k = "nan"

\* ToNumber: null converts to 0, undefined to NaN
ToNumber(x) == IF x.k = "null" THEN Num(0) ELSE IF x.k = "undef" THEN NaN ELSE x

Sign(x) == IF x.n > 0 THEN 1 ELSE IF x.n < 0 THEN -1 ELSE 0

JsNeg(x) == IF IsNaN(x) THEN NaN ELSE [x EXCEPT !.n = -x.n]

JsAdd(x, y) ==
  IF IsNaN(x) \/ IsNaN(y) THEN NaN
  ELSE IF x.k = "inf" /\ y.k = "inf" THEN (IF x.n = y.n THEN x ELSE NaN)
  ELSE IF x.k = "inf" THEN x
  ELSE IF y.k = "inf" THEN y
  ELSE Fin(x.n * y.d + y.n * x.d, x.d * y.d)

JsSub(x, y) == JsAdd(x, JsNeg(y))

JsMul(x, y) ==
  IF IsNaN(x) \/ IsNaN(y) THEN NaN
  ELSE IF x.k = "inf" \/ y.k = "inf"
       THEN (IF Sign(x) * Sign(y) = 0 THEN NaN
             ELSE IF Sign(x) * Sign(y) > 0 THEN Infinity ELSE NegInfinity)
  ELSE Fin(x.n * y.n, x.d * y.d)

\* x / y: a finite non-zero value over 0 is +-Infinity, 0/0 is NaN
JsDiv(x, y) ==
  IF IsNaN(x) \/ IsNaN(y) THEN NaN
  ELSE IF x.k = "inf" /\ y.k = "inf" THEN NaN
  ELSE IF x.k = "inf" THEN (IF Sign(y) = 0 THEN x
                            ELSE IF Sign(x) * Sign(y) > 0 THEN Infinity
                            ELSE NegInfinity)
  ELSE IF y.k = "inf" THEN Num(0)
  ELSE IF y.n = 0 THEN (IF x.n = 0 THEN NaN
                        ELSE IF x.n > 0 THEN Infinity ELSE NegInfinity)
  ELSE Fin(x.n * y.d, x.d * y.n)

\* a < b on numbers; every comparison with NaN is false
JsLt(x, y) ==
  LET a == ToNumber(x)
      b == ToNumber(y)
  IN  IF IsNaN(a) \/ IsNaN(b) THEN FALSE
      ELSE IF a.k = "inf" THEN a.n < 0 /\ ~(b.k = "inf" /\ b.n < 0)
      ELSE IF b.k = "inf" THEN b.n > 0
      ELSE a.n * b.d < b.n * a.d

JsGt(x, y) == JsLt(y, x)
JsGe(x, y) == ~IsNaN(ToNumber(x)) /\ ~IsNaN(ToNumber(y)) /\ ~JsLt(x, y)
JsLe(x, y) == JsGe(y, x)
\* a === b on two numbers
JsEq(x, y) == ~IsNaN(x) /\ ~IsNaN(y) /\ x = y

MathMin(x, y) == IF IsNaN(x) \/ IsNaN(y) THEN NaN ELSE IF JsLt(y, x) THEN y ELSE x
MathMax(x, y) == IF IsNaN(x) \/ IsNaN(y) THEN NaN ELSE IF JsLt(x, y) THEN y ELSE x
MathAbs(x) == IF IsNaN(x) THEN NaN ELSE [x EXCEPT !.n = Abs(x.n)]
MathFloor(x) == IF IsFin(x) THEN Num(x.n \div x.d) ELSE x
MathCeil(x) == IF IsFin(x) THEN Num(-((-x.n) \div x.d)) ELSE x
\* Math.round: the nearest integer, halves rounded towards +Infinity
MathRound(x) == IF IsFin(x) THEN Num((2 * x.n + x.d) \div (2 * x.d)) ELSE x

SqrtPrecision == 100

RECURSIVE ISqrtIn(_, _, _)
\* bisection: lo*lo <= n < hi*hi
ISqrtIn(n, lo, hi) ==
  IF hi - lo <= 1 THEN lo
  ELSE LET mid == (lo + hi) \div 2
       IN  IF mid * mid <= n THEN ISqrtIn(n, mid, hi) ELSE ISqrtIn(n, lo, mid)
\* the largest r with r*r <= n, for 0 <= n < 2^30
ISqrt(n) == ISqrtIn(n, 0, 32768)

\* Math.sqrt, rounded down to a multiple of 1/SqrtPrecision
MathSqrt(x) ==
  IF IsNaN(x) THEN NaN
  ELSE IF x.k = "inf" THEN (IF x.n > 0 THEN Infinity ELSE NaN)
  ELSE IF x.n < 0 THEN NaN
  ELSE Fin(ISqrt((x.n * SqrtPrecision * SqrtPrecision) \div x.d), SqrtPrecision)

RECURSIVE SumNums(_)
\* values.reduce((sum, val) => sum + val, 0)
SumNums(values) ==
  IF values = <<>> THEN Num(0)
  ELSE JsAdd(SumNums(SubSeq(values, 1, Len(values) - 1)), values[Len(values)])

RECURSIVE Insert(_, _)
Insert(sorted, v) ==
  IF sorted = <<>> THEN <<v>>
  ELSE IF JsLt(v, sorted[1]) THEN <<v>> \o sorted
  ELSE <<sorted[1]>> \o Insert(Tail(sorted), v)

RECURSIVE SortNums(_)
\* [...values].sort((a, b) => a - b)
SortNums(values) ==
  IF values = <<>> THEN <<>>
  ELSE Insert(SortNums(SubSeq(values, 1, Len(values) - 1)), values[Len(values)])

----------------------------------------------------------------------------
(* lib/statsUtils: statistical functions *)

calculateMean_Unguarded(values) == JsDiv(SumNums(values), Num(Len(values)))

calculateMean(values) ==
  IF Len(values) = 0 THEN Num(0)
  ELSE JsDiv(SumNums(values), Num(Len(values)))

calculateMedian(values) ==
  IF Len(values) = 0 THEN Num(0)
  ELSE LET sorted == SortNums(values)
           mid == Len(sorted) \div 2      \* 0-based index
       IN  IF Len(sorted) % 2 # 0 THEN sorted[mid + 1]
           ELSE JsDiv(JsAdd(sorted[mid], sorted[mid + 1]), Num(2))

SquaredDiffs(values, mean) ==
  [i \in 1..Len(values) |-> JsMul(JsSub(values[i], mean), JsSub(values[i], mean))]

calculateStandardDeviation(values) ==
  IF Len(values) = 0 THEN Num(0)
  ELSE MathSqrt(calculateMean(SquaredDiffs(values, calculateMean(values))))

calculateVariance(values) ==
  IF Len(values) = 0 THEN Num(0)
  ELSE calculateMean(SquaredDiffs(values, calculateMean(values)))

calculatePercentile(values, percentile) ==
  IF Len(values) = 0 THEN Num(0)
  ELSE LET sorted == SortNums(values)
           index == JsMul(JsDiv(percentile, Num(100)), Num(Len(sorted) - 1))
           lower == MathFloor(index)
           upper == MathCeil(index)
       IN  IF lower = upper THEN sorted[lower.n + 1]
           ELSE JsAdd(JsMul(sorted[lower.n + 1], JsSub(upper, index)),
                      JsMul(sorted[upper.n + 1], JsSub(index, lower)))

calculateZScore(value, mean, stdDev) ==
  IF JsEq(stdDev, Num(0)) THEN Num(0)
  ELSE JsDiv(JsSub(value, mean), stdDev)

normalizeValue(value, min, max) ==
  IF JsEq(max, min) THEN Num(0)
  ELSE JsDiv(JsSub(value, min), JsSub(max, min))

clamp(value, min, max) == MathMin(MathMax(value, min), max)

calculateConsistencyScore_ShortGuard(values) ==
  IF Len(values) < 1 THEN Num(50)
  ELSE LET mean == JsDiv(SumNums(values), Num(Len(values)))
       IN  IF JsEq(mean, Num(0)) THEN Num(50)
           ELSE clamp(JsSub(Num(100), JsMul(JsDiv(Num(0), mean), Num(100))),
                      Num(0), Num(100))

calculateConsistencyScore(values) ==
  IF Len(values) < 2 THEN Num(50)
  ELSE LET mean == calculateMean(values)
       IN  IF JsEq(mean, Num(0)) THEN Num(50)
           ELSE LET stdDev == calculateStandardDeviation(values)
                    coefficientOfVariation == JsMul(JsDiv(stdDev, mean), Num(100))
                IN  clamp(JsSub(Num(100), coefficientOfVariation), Num(0), Num(100))

calculateBowlingIndex(player) ==
  IF JsEq(player.wickets, Num(0)) THEN Num(0)
  ELSE LET economyScore ==
             JsMul(MathMax(Num(0), JsDiv(JsSub(Num(10), player.bowlingEconomy), Num(10))),
                   Num(100))
           wicketsScore ==
             MathMin(JsMul(JsDiv(player.wickets, player.matchesPlayed), Num(20)), Num(100))
           consistency == calculateConsistencyScore(player.wicketsPerMatch)
           experience ==
             JsMul(MathMin(JsDiv(player.matchesPlayed, Num(150)), Num(1)), Num(100))
       IN  JsAdd(JsAdd(JsAdd(JsMul(economyScore, Fin(35, 100)),
                             JsMul(wicketsScore, Fin(35, 100))),
                       JsMul(consistency, Fin(20, 100))),
                 JsMul(experience, Fin(10, 100)))

BoundaryRuns(player) == JsAdd(JsMul(player.fours, Num(4)), JsMul(player.sixes, Num(6)))

calculateStrikeRotation(player) ==
  LET nonBoundaryRuns == JsSub(player.totalRuns, BoundaryRuns(player))
  IN  IF JsEq(player.totalRuns, Num(0)) THEN Num(0)
      ELSE JsMul(JsDiv(nonBoundaryRuns, player.totalRuns), Num(100))

calculateBoundaryPercentage(player) ==
  IF JsEq(player.totalRuns, Num(0)) THEN Num(0)
  ELSE JsMul(JsDiv(BoundaryRuns(player), player.totalRuns), Num(100))

calculateSixToFourRatio(player) ==
  IF JsEq(player.fours, Num(0))
  THEN (IF JsGt(player.sixes, Num(0)) THEN Infinity ELSE Num(0))
  ELSE JsDiv(player.sixes, player.fours)

calculateRunsPerMatch(player) ==
  IF JsEq(player.matchesPlayed, Num(0)) THEN Num(0)
  ELSE JsDiv(player.totalRuns, player.matchesPlayed)

calculateWicketsPerMatch(player) ==
  IF JsEq(player.matchesPlayed, Num(0)) THEN Num(0)
  ELSE JsDiv(player.wickets, player.matchesPlayed)

compareValues_Inclusive(a, b) ==
  IF JsLe(MathAbs(JsSub(a, b)), Fin(1, 100)) THEN "equal"
  ELSE IF JsGt(a, b) THEN "higher" ELSE "lower"

compareValues(a, b) ==
  IF JsLt(MathAbs(JsSub(a, b)), Fin(1, 100)) THEN "equal"
  ELSE IF JsGt(a, b) THEN "higher" ELSE "lower"

calculatePercentageDifference(a, b) ==
  IF JsEq(b, Num(0)) THEN (IF JsGt(a, Num(0)) THEN Num(100) ELSE Num(0))
  ELSE JsMul(JsDiv(JsSub(a, b), b), Num(100))

\* AnalyticsEngine.calculateBowlingRating
calculateBowlingRating(player) ==
  IF JsEq(player.wickets, Num(0)) THEN Num(0)
  ELSE LET economyScore ==
             MathMax(JsSub(Num(100), JsMul(player.bowlingEconomy, Num(10))), Num(0))
           wicketRate == JsMul(JsDiv(player.wickets, player.matchesPlayed), Num(25))
       IN  MathMin(JsAdd(JsMul(economyScore, Fin(1, 2)), JsMul(wicketRate, Fin(1, 2))),
                   Num(100))

----------------------------------------------------------------------------
(* Players.  The Player type and initialPlayers live in data/players.       *)

Roles == {"Batsman", "Bowler", "All-Rounder", "Wicket-Keeper"}

\* a player with every field present; names are sequences of characters
MkPlayer(id, name, role, image) ==
  [id |-> id, name |-> name, role |-> role, image |-> image,
   battingAverage |-> Num(30), strikeRate |-> Num(120), bowlingEconomy |-> Num(6),
   fitnessScore |-> Num(80), fieldingRating |-> Num(70), totalRuns |-> Num(60),
   wickets |-> Num(2), matchesPlayed |-> Num(2), catches |-> Num(1),
   fours |-> Num(4), sixes |-> Num(2),
   runsPerMatch |-> <<Num(20), Num(40)>>, wicketsPerMatch |-> <<Num(0), Num(2)>>]

----------------------------------------------------------------------------
(* services/analyticsEngine: class AnalyticsEngine.  Each method takes the  *)
(* engine's this.players as its first parameter.                            *)

Field(players, f) == [i \in 1..Len(players) |-> players[i][f]]
Count(players, Test(_)) == Len(SelectSeq(players, Test))
SliceLast_All(values, n) == values

\* values.slice(-n)
SliceLast(values, n) ==
  SubSeq(values, IF Len(values) > n THEN Len(values) - n + 1 ELSE 1, Len(values))
\* values.slice(0, n)
SliceFirst(values, n) == SubSeq(values, 1, IF Len(values) < n THEN Len(values) ELSE n)
\* Math.round(x * 10) / 10
Round1(x) == JsDiv(MathRound(JsMul(x, Num(10))), Num(10))
\* values.reduce((a, b) => a + b, 0) / values.length
Average(values) == JsDiv(SumNums(values), Num(Len(values)))

calculateBattingRating(player) ==
  LET avgScore == MathMin(JsMul(player.battingAverage, Fin(3, 2)), Num(100))
      srScore == MathMin(JsDiv(player.strikeRate, Num(2)), Num(50))
      boundaryScore ==
        JsMul(JsDiv(JsAdd(player.fours, JsMul(player.sixes, Fin(3, 2))),
                    player.matchesPlayed), Num(2))
  IN  MathMin(JsAdd(JsAdd(JsMul(avgScore, Fin(1, 2)), JsMul(srScore, Fin(3, 10))),
                    JsMul(boundaryScore, Fin(1, 5))), Num(100))

calculateConsistency(player) ==
  LET runs == player.runsPerMatch
  IN  IF Len(runs) = 0 THEN Num(50)
      ELSE LET mean == Average(runs)
               variance == JsDiv(SumNums(SquaredDiffs(runs, mean)), Num(Len(runs)))
               stdDev == MathSqrt(variance)
               cv == IF JsGt(mean, Num(0)) THEN JsMul(JsDiv(stdDev, mean), Num(100))
                     ELSE Num(100)
           IN  MathMax(JsSub(Num(100), cv), Num(0))

calculateImpactScore(player) ==
  LET runs == player.runsPerMatch
      highImpactMatches == Count(runs, LAMBDA r : JsGe(r, Num(50)))
      matchWinningPotential == Count(runs, LAMBDA r : JsGe(r, Num(75)))
      impactfulBowling == Count(player.wicketsPerMatch, LAMBDA w : JsGe(w, Num(3)))
      impactRatio ==
        Fin(highImpactMatches * 2 + matchWinningPotential * 3 + impactfulBowling * 2,
            IF Len(runs) = 0 THEN 1 ELSE Len(runs))
  IN  MathMin(JsMul(impactRatio, Num(20)), Num(100))

calculateFormIndex(player) ==
  LET recentRuns == SliceLast(player.runsPerMatch, 5)
      recentWickets == SliceLast(player.wicketsPerMatch, 5)
  IN  IF Len(recentRuns) = 0 THEN Num(50)
      ELSE LET avgRecentRuns == Average(recentRuns)
               avgRecentWickets == Average(recentWickets)
               overallAvgRuns == Average(player.runsPerMatch)
               formMultiplier == IF JsGt(overallAvgRuns, Num(0))
                                 THEN JsDiv(avgRecentRuns, overallAvgRuns) ELSE Num(1)
               formScore == JsAdd(JsMul(Num(50), formMultiplier),
                                  JsMul(avgRecentWickets, Num(10)))
           IN  MathMin(MathMax(formScore, Num(0)), Num(100))

calculateRecentImprovement(player) ==
  LET runs == player.runsPerMatch
      half == Len(runs) \div 2
  IN  IF Len(runs) < 6 THEN Num(0)
      ELSE LET firstAvg == Average(SubSeq(runs, 1, half))
               secondAvg == Average(SubSeq(runs, half + 1, Len(runs)))
           IN  IF JsGt(firstAvg, Num(0))
               THEN JsMul(JsDiv(JsSub(secondAvg, firstAvg), firstAvg), Num(50))
               ELSE Num(0)

calculatePotential(player) ==
  LET recentImprovement == calculateRecentImprovement(player)
      fitnessBonus == IF JsGt(player.fitnessScore, Num(85)) THEN Num(10) ELSE Num(0)
      experienceFactor ==
        JsMul(MathMin(JsDiv(player.matchesPlayed, Num(200)), Num(1)), Num(20))
  IN  MathMin(JsSub(JsAdd(JsAdd(Num(70), recentImprovement), fitnessBonus),
                    experienceFactor), Num(100))

\* items: a sequence of [value, weight]
weightedAverage(items) ==
  LET totalWeight == SumNums(Field(items, "weight"))
      weightedSum == SumNums([i \in 1..Len(items) |->
                                JsMul(items[i].value, items[i].weight)])
  IN  JsDiv(weightedSum, totalWeight)

calculatePerformanceMetrics(player) ==
  LET battingRating == calculateBattingRating(player)
      bowlingRating == calculateBowlingRating(player)
      fieldingRating == player.fieldingRating
      consistencyScore == calculateConsistency(player)
      impactScore == calculateImpactScore(player)
      formIndex == calculateFormIndex(player)
      potentialRating == calculatePotential(player)
      overallRating == weightedAverage(<<
        [value |-> battingRating,
         weight |-> IF player.role = "Bowler" THEN Fin(15, 100) ELSE Fin(35, 100)],
        [value |-> bowlingRating,
         weight |-> IF player.role = "Batsman" THEN Fin(1, 10) ELSE Fin(3, 10)],
        [value |-> fieldingRating, weight |-> Fin(15, 100)],
        [value |-> consistencyScore, weight |-> Fin(15, 100)],
        [value |-> impactScore, weight |-> Fin(15, 100)],
        [value |-> player.fitnessScore, weight |-> Fin(1, 10)] >>)
  IN  [overallRating |-> Round1(overallRating),
       battingRating |-> Round1(battingRating),
       bowlingRating |-> Round1(bowlingRating),
       fieldingRating |-> fieldingRating,
       consistencyScore |-> Round1(consistencyScore),
       impactScore |-> Round1(impactScore),
       formIndex |-> Round1(formIndex),
       potentialRating |-> Round1(potentialRating)]

\* analyzeForm(player).currentForm
currentForm(player) ==
  LET formScore == calculateFormIndex(player)
  IN  IF JsGe(formScore, Num(80)) THEN "Excellent"
      ELSE IF JsGe(formScore, Num(60)) THEN "Good"
      ELSE IF JsGe(formScore, Num(40)) THEN "Average"
      ELSE IF JsGe(formScore, Num(20)) THEN "Poor"
      ELSE "Critical"

OfRole(players, role) == SelectSeq(players, LAMBDA p : p.role = role)

calculateBattingDepth(players) ==
  LET battingPlayers == SelectSeq(players, LAMBDA p : JsGt(p.battingAverage, Num(20)))
      avgBattingAverage == JsDiv(SumNums(Field(battingPlayers, "battingAverage")),
                                 Num(Len(battingPlayers)))
      depthScore == JsMul(Fin(Len(battingPlayers), 7), Num(50))
      qualityScore == MathMin(JsMul(avgBattingAverage, Fin(3, 2)), Num(50))
  IN  JsAdd(depthScore, qualityScore)

calculateBowlingStrength(players) ==
  LET bowlingPlayers == SelectSeq(players, LAMBDA p : JsGt(p.wickets, Num(10)))
      avgEconomy == IF Len(bowlingPlayers) > 0
                    THEN JsDiv(SumNums(Field(bowlingPlayers, "bowlingEconomy")),
                               Num(Len(bowlingPlayers)))
                    ELSE Num(10)
      varietyScore == JsMul(Fin(Len(bowlingPlayers), 5), Num(40))
      economyScore == MathMax(JsSub(Num(60), JsMul(avgEconomy, Num(6))), Num(0))
  IN  JsAdd(varietyScore, economyScore)

calculateFieldingEfficiency(players) ==
  LET avgFielding == JsDiv(SumNums(Field(players, "fieldingRating")), Num(Len(players)))
      catchRate == JsDiv(JsDiv(SumNums(Field(players, "catches")), Num(Len(players))),
                         Num(10))
  IN  MathMin(JsAdd(JsMul(avgFielding, Fin(7, 10)), JsMul(catchRate, Num(30))), Num(100))

calculateTeamBalance(players) ==
  LET batsman == Len(OfRole(players, "Batsman"))
      bowler == Len(OfRole(players, "Bowler"))
      allRounder == Len(OfRole(players, "All-Rounder"))
      keeper == Len(OfRole(players, "Wicket-Keeper"))
      score == 100 - (IF batsman < 3 \/ batsman > 6 THEN 20 ELSE 0)
                   - (IF bowler < 3 \/ bowler > 6 THEN 20 ELSE 0)
                   - (IF allRounder < 1 \/ allRounder > 4 THEN 15 ELSE 0)
                   - (IF keeper < 1 \/ keeper > 2 THEN 10 ELSE 0)
  IN  Num(IF score > 0 THEN score ELSE 0)

When(cond, text) == IF cond THEN <<text>> ELSE <<>>

identifyWeaknesses(players) ==
  LET avgFitness == JsDiv(SumNums(Field(players, "fitnessScore")), Num(Len(players)))
      poorFormPlayers ==
        Count(players, LAMBDA p : currentForm(p) \in {"Poor", "Critical"})
  IN  When(Len(OfRole(players, "Batsman")) < 4, "Insufficient batting depth")
      \o When(Len(OfRole(players, "Bowler")) < 4, "Limited bowling options")
      \o When(Len(OfRole(players, "All-Rounder")) < 2, "Lack of all-rounders")
      \o When(Len(OfRole(players, "Wicket-Keeper")) < 1, "No dedicated wicket-keeper")
      \o When(JsLt(avgFitness, Num(80)), "Overall team fitness below optimal")
      \o When(poorFormPlayers >= 3, "Multiple players out of form")

identifyStrengths(players) ==
  LET topBatsmen == Count(OfRole(players, "Batsman"),
                          LAMBDA p : JsGt(p.battingAverage, Num(45)))
      topBowlers == Count(OfRole(players, "Bowler"),
                          LAMBDA p : JsLt(p.bowlingEconomy, Num(5)))
      avgFielding == JsDiv(SumNums(Field(players, "fieldingRating")), Num(Len(players)))
      inFormPlayers ==
        Count(players, LAMBDA p : currentForm(p) \in {"Excellent", "Good"})
  IN  When(topBatsmen >= 2, "Strong top-order batting")
      \o When(topBowlers >= 2, "Economical bowling attack")
      \o When(JsGt(avgFielding, Num(80)), "Excellent fielding unit")
      \o When(Len(OfRole(players, "All-Rounder")) >= 3, "Deep all-round capability")
      \o When(10 * inFormPlayers >= 6 * Len(players), "Majority of squad in good form")

analyzeTeam(players) ==
  LET battingDepth == calculateBattingDepth(players)
      bowlingStrength == calculateBowlingStrength(players)
      fieldingEfficiency == calculateFieldingEfficiency(players)
      balanceScore == calculateTeamBalance(players)
      teamStrength ==
        JsDiv(JsAdd(JsAdd(JsAdd(battingDepth, bowlingStrength), fieldingEfficiency),
                    balanceScore), Num(4))
  IN  [teamStrength |-> Round1(teamStrength),
       battingDepth |-> Round1(battingDepth),
       bowlingStrength |-> Round1(bowlingStrength),
       fieldingEfficiency |-> Round1(fieldingEfficiency),
       balanceScore |-> Round1(balanceScore),
       weaknesses |-> identifyWeaknesses(players),
       strengths |-> identifyStrengths(players)]

RECURSIVE InsertByScore(_, _)
\* the position Array.prototype.sort gives an item under (a, b) => b.score - a.score:
\* before the first item with a smaller score, after items that compare equal
InsertByScore(sorted, item) ==
  IF sorted = <<>> THEN <<item>>
  ELSE IF JsGt(item.score, sorted[1].score) THEN <<item>> \o sorted
  ELSE <<sorted[1]>> \o InsertByScore(Tail(sorted), item)

RECURSIVE SortByScore(_)
SortByScore(items) ==
  IF items = <<>> THEN <<>>
  ELSE InsertByScore(SortByScore(SubSeq(items, 1, Len(items) - 1)), items[Len(items)])

identifyKeyPlayers(players) ==
  Field(SliceFirst(SortByScore([i \in 1..Len(players) |->
          [player |-> players[i],
           score |-> calculatePerformanceMetrics(players[i]).overallRating]]), 3),
        "player")

identifyRiskFactors(players) ==
  LET lowFitness == Count(players, LAMBDA p : JsLt(p.fitnessScore, Num(75)))
      outOfForm == Count(players, LAMBDA p : currentForm(p) \in {"Poor", "Critical"})
      inexperienced == Count(players, LAMBDA p : JsLt(p.matchesPlayed, Num(30)))
  IN  (IF lowFitness > 0 THEN <<<<lowFitness, "player(s) with fitness concerns">>>>
       ELSE <<>>)
      \o (IF outOfForm > 0 THEN <<<<outOfForm, "player(s) out of form">>>> ELSE <<>>)
      \o (IF inexperienced >= 3
          THEN <<<<0, "Several inexperienced players in squad">>>> ELSE <<>>)

generateRecommendations(players) ==
  LET teamAnalytics == analyzeTeam(players)
  IN  When(JsLt(teamAnalytics.battingDepth, Num(70)),
           <<"Consider promoting an all-rounder up the order">>)
      \o When(JsLt(teamAnalytics.bowlingStrength, Num(70)),
              <<"May need additional bowling support">>)
      \o << <<"Rely on key players">> \o Field(identifyKeyPlayers(players), "name") >>

simulateMatch(players, opponentStrength) ==
  LET teamAnalytics == analyzeTeam(players)
      strengthDiff == JsSub(teamAnalytics.teamStrength, opponentStrength)
      winProbability ==
        MathMin(MathMax(JsAdd(Num(50), JsMul(strengthDiff, Fin(1, 2))), Num(10)), Num(90))
      avgTeamRuns == SumNums([i \in 1..Len(players) |-> Average(players[i].runsPerMatch)])
      avgTeamWickets ==
        SumNums([i \in 1..Len(players) |-> Average(players[i].wicketsPerMatch)])
  IN  [winProbability |-> MathRound(winProbability),
       expectedRuns |-> MathRound(avgTeamRuns),
       expectedWickets |-> MathRound(avgTeamWickets),
       keyPlayers |-> identifyKeyPlayers(players),
       riskFactors |-> identifyRiskFactors(players),
       recommendations |-> generateRecommendations(players)]

getTopPerformers(players, category, count) ==
  Field(SliceFirst(SortByScore([i \in 1..Len(players) |->
          LET metrics == calculatePerformanceMetrics(players[i])
          IN  [player |-> players[i],
               score |-> IF category = "batting" THEN metrics.battingRating
                         ELSE IF category = "bowling" THEN metrics.bowlingRating
                         ELSE IF category = "fielding" THEN metrics.fieldingRating
                         ELSE metrics.overallRating]]), count),
        "player")

----------------------------------------------------------------------------
(* Specification of the pure functions: a behaviour is one call of one     *)
(* function on inputs drawn from the sets below.                            *)

MaxLen == 3

StatValues == {Num(-10), Num(0), Num(10), Num(30)}
ScalarValues == {Num(-1), Num(0), Fin(1, 200), Fin(1, 100), Num(1)}

RECURSIVE SeqsUpTo(_, _)
SeqsUpTo(S, n) ==
  IF n = 0 THEN {<<>>}
  ELSE LET shorter == SeqsUpTo(S, n - 1)
       IN  shorter \cup {Append(q, v) : q \in {r \in shorter : Len(r) = n - 1}, v \in S}

ValueLists == SeqsUpTo(StatValues, MaxLen)

StatPlayers ==
  { [MkPlayer(1, <<"A", "b">>, "Bowler", "a.png") EXCEPT
       !.matchesPlayed = Num(m), !.totalRuns = Num(r), !.wickets = Num(w),
       !.fours = Num(f), !.sixes = Num(x), !.bowlingEconomy = Num(e),
       !.wicketsPerMatch = wpm] :
      m \in {0, 2}, r \in {0, 40}, w \in {0, 3}, f \in {0, 4}, x \in {0, 2},
      e \in {6, 12}, wpm \in {<<>>, <<Num(1), Num(2)>>} }

EngineIdle ==
  /\ analyticsEngineInstance = Null
  /\ held = <<>>

DataIdle ==
  /\ localStorage = Null
  /\ cache = Null
  /\ now = 0
  /\ nextId = 0
  /\ procs = <<>>
  /\ calls = 0
  /\ quotaFull = FALSE
  /\ exported = Null
  /\ provider = Null

InitStats ==
  /\ call = [fn |-> "none"]
  /\ ret = Null
  /\ EngineIdle
  /\ DataIdle

engineVars == <<analyticsEngineInstance, held>>
dataVars == <<localStorage, cache, now, nextId, procs, calls, quotaFull, exported>>
uiVars == <<provider>>

CallMean == \E v \in ValueLists :
  /\ call.fn = "none"
  /\ call' = [fn |-> "calculateMean", values |-> v]
  /\ ret' = calculateMean(v)
  /\ UNCHANGED <<engineVars, dataVars, uiVars>>
CallMedian == \E v \in ValueLists :
  /\ call.fn = "none"
  /\ call' = [fn |-> "calculateMedian", values |-> v]
  /\ ret' = calculateMedian(v)
  /\ UNCHANGED <<engineVars, dataVars, uiVars>>
CallStandardDeviation == \E v \in ValueLists :
  /\ call.fn = "none"
  /\ call' = [fn |-> "calculateStandardDeviation", values |-> v]
  /\ ret' = calculateStandardDeviation(v)
  /\ UNCHANGED <<engineVars, dataVars, uiVars>>
CallVariance == \E v \in ValueLists :
  /\ call.fn = "none"
  /\ call' = [fn |-> "calculateVariance", values |-> v]
  /\ ret' = calculateVariance(v)
  /\ UNCHANGED <<engineVars, dataVars, uiVars>>
CallPercentile == \E v \in ValueLists, pc \in {Num(0), Num(50), Num(90)} :
  /\ call.fn = "none"
  /\ call' = [fn |-> "calculatePercentile", values |-> v, a |-> pc]
  /\ ret' = calculatePercentile(v, pc)
  /\ UNCHANGED <<engineVars, dataVars, uiVars>>
CallZScore == \E a \in StatValues, b \in StatValues, c \in StatValues :
  /\ call.fn = "none"
  /\ call' = [fn |-> "calculateZScore", a |-> a, b |-> b, c |-> c]
  /\ ret' = calculateZScore(a, b, c)
  /\ UNCHANGED <<engineVars, dataVars, uiVars>>
CallNormalize == \E a \in StatValues, b \in StatValues, c \in StatValues :
  /\ call.fn = "none"
  /\ call' = [fn |-> "normalizeValue", a |-> a, b |-> b, c |-> c]
  /\ ret' = normalizeValue(a, b, c)
  /\ UNCHANGED <<engineVars, dataVars, uiVars>>
CallConsistencyScore == \E v \in ValueLists :
  /\ call.fn = "none"
  /\ call' = [fn |-> "calculateConsistencyScore", values |-> v]
  /\ ret' = calculateConsistencyScore(v)
  /\ UNCHANGED <<engineVars, dataVars, uiVars>>
CallStrikeRotation == \E p \in StatPlayers :
  /\ call.fn = "none"
  /\ call' = [fn |-> "calculateStrikeRotation", player |-> p]
  /\ ret' = calculateStrikeRotation(p)
  /\ UNCHANGED <<engineVars, dataVars, uiVars>>
CallBoundaryPercentage == \E p \in StatPlayers :
  /\ call.fn = "none"
  /\ call' = [fn |-> "calculateBoundaryPercentage", player |-> p]
  /\ ret' = calculateBoundaryPercentage(p)
  /\ UNCHANGED <<engineVars, dataVars, uiVars>>
CallSixToFourRatio == \E p \in StatPlayers :
  /\ call.fn = "none"
  /\ call' = [fn |-> "calculateSixToFourRatio", player |-> p]
  /\ ret' = calculateSixToFourRatio(p)
  /\ UNCHANGED <<engineVars, dataVars, uiVars>>
CallRunsPerMatch == \E p \in StatPlayers :
  /\ call.fn = "none"
  /\ call' = [fn |-> "calculateRunsPerMatch", player |-> p]
  /\ ret' = calculateRunsPerMatch(p)
  /\ UNCHANGED <<engineVars, dataVars, uiVars>>
CallWicketsPerMatch == \E p \in StatPlayers :
  /\ call.fn = "none"
  /\ call' = [fn |-> "calculateWicketsPerMatch", player |-> p]
  /\ ret' = calculateWicketsPerMatch(p)
  /\ UNCHANGED <<engineVars, dataVars, uiVars>>
CallBowlingIndex == \E p \in StatPlayers :
  /\ call.fn = "none"
  /\ call' = [fn |-> "calculateBowlingIndex", player |-> p]
  /\ ret' = calculateBowlingIndex(p)
  /\ UNCHANGED <<engineVars, dataVars, uiVars>>
CallBowlingRating == \E p \in StatPlayers :
  /\ call.fn = "none"
  /\ call' = [fn |-> "calculateBowlingRating", player |-> p]
  /\ ret' = calculateBowlingRating(p)
  /\ UNCHANGED <<engineVars, dataVars, uiVars>>
CallCompareValues == \E a \in ScalarValues, b \in ScalarValues :
  /\ call.fn = "none"
  /\ call' = [fn |-> "compareValues", a |-> a, b |-> b]
  /\ ret' = compareValues(a, b)
  /\ UNCHANGED <<engineVars, dataVars, uiVars>>
CallPercentageDifference == \E a \in StatValues, b \in StatValues :
  /\ call.fn = "none"
  /\ call' = [fn |-> "calculatePercentageDifference", a |-> a, b |-> b]
  /\ ret' = calculatePercentageDifference(a, b)
  /\ UNCHANGED <<engineVars, dataVars, uiVars>>

NextStats ==
  \/ CallMean \/ CallMedian \/ CallStandardDeviation \/ CallVariance
  \/ CallPercentile \/ CallZScore \/ CallNormalize \/ CallConsistencyScore
  \/ CallStrikeRotation \/ CallBoundaryPercentage \/ CallSixToFourRatio
  \/ CallRunsPerMatch \/ CallWicketsPerMatch \/ CallBowlingIndex
  \/ CallBowlingRating \/ CallCompareValues \/ CallPercentageDifference

SpecStats == InitStats /\ [][NextStats]_vars

----------------------------------------------------------------------------
(* Claims about the pure functions, checked under SpecStats *)

PerMatchFns == {"calculateRunsPerMatch", "calculateWicketsPerMatch",
                "calculateBowlingRating", "calculateBowlingIndex"}

\* C1: for a player with matchesPlayed = 0, runs per match, wickets per match
\* and both bowling ratings return exactly 0, whatever the other fields are.
C1_ZeroMatchesReturnZero ==
  (call.fn \in PerMatchFns /\ call.player.matchesPlayed = Num(0)) => ret = Num(0)

EmptyListFns == {"calculateMean", "calculateMedian", "calculateStandardDeviation",
                 "calculateVariance", "calculatePercentile"}

\* the cases of C6 on which the original claim and the code agree
C6_Common ==
  /\ (call.fn \in EmptyListFns /\ call.values = <<>>) => ret = Num(0)
  /\ (call.fn = "calculateZScore" /\ call.c = Num(0)) => ret = Num(0)
  /\ (call.fn = "normalizeValue" /\ call.b = call.c) => ret = Num(0)
  /\ (call.fn \in {"calculateStrikeRotation", "calculateBoundaryPercentage"}
        /\ call.player.totalRuns = Num(0)) => ret = Num(0)

\* C6 as stated: every function whose formula divides by an input returns
\* exactly 0 when that divisor is 0.
C6_ZeroDivisorReturnsZero ==
  /\ C6_Common
  /\ (call.fn = "calculateSixToFourRatio" /\ call.player.fours = Num(0)) => ret = Num(0)
  /\ (call.fn = "calculatePercentageDifference" /\ call.b = Num(0)) => ret = Num(0)

\* C6 amended: as above, except that calculateSixToFourRatio with fours = 0
\* returns Infinity when sixes > 0 (0 otherwise) and calculatePercentageDifference
\* with b = 0 returns 100 when a > 0 (0 otherwise).
C6_ZeroDivisorGuards ==
  /\ C6_Common
  /\ (call.fn = "calculateSixToFourRatio" /\ call.player.fours = Num(0)) =>
        ret = (IF call.player.sixes.n > 0 THEN Infinity ELSE Num(0))
  /\ (call.fn = "calculatePercentageDifference" /\ call.b = Num(0)) =>
        ret = (IF call.a.n > 0 THEN Num(100) ELSE Num(0))

C6_Witness ==
  /\ call.fn = "calculateSixToFourRatio"
  /\ call.player.fours = Num(0)
  /\ call.player.sixes = Num(2)
  /\ ret = Infinity

RECURSIVE IntSum(_)
IntSum(values) == IF values = <<>> THEN 0 ELSE values[1].n + IntSum(Tail(values))

RECURSIVE SqDevSum(_, _, _)
\* the sum over the list of (N*v - S)^2
SqDevSum(values, N, S) ==
  IF values = <<>> THEN 0
  ELSE (N * values[1].n - S) * (N * values[1].n - S) + SqDevSum(Tail(values), N, S)

\* C7: calculateConsistencyScore returns 50 for lists shorter than 2 and for
\* lists with mean 0; otherwise it is 100 minus the coefficient of variation
\* 100 * stdDev / mean, clamped to [0, 100].  With N the length, S the sum and
\* Q the sum of (N*v - S)^2, the variance is Q / N^3; the square root is taken
\* to within 1 / SqrtPrecision.
C7_ConsistencyScore ==
  call.fn = "calculateConsistencyScore" =>
    LET v == call.values
        N == Len(v)
        S == IntSum(v)
        variance == Fin(SqDevSum(v, N, S), N * N * N)
        cv == JsSub(Num(100), ret)
        sd == JsDiv(JsMul(cv, Fin(S, N)), Num(100))
        sdUp == JsAdd(sd, Fin(1, SqrtPrecision))
    IN  IF N < 2 \/ S = 0 THEN ret = Num(50)
        ELSE /\ IsFin(ret) /\ JsGe(ret, Num(0)) /\ JsLe(ret, Num(100))
             /\ S < 0 => ret = Num(100)
             /\ ret = Num(0) => (S > 0 /\ JsGe(variance, Fin(S * S, N * N)))
             /\ ret = Num(100) => (S < 0 \/ JsLt(variance, Fin(1, SqrtPrecision * SqrtPrecision)))
             /\ (JsGt(ret, Num(0)) /\ JsLt(ret, Num(100))) =>
                   /\ S > 0
                   /\ JsLe(JsMul(sd, sd), variance)
                   /\ JsLt(variance, JsMul(sdUp, sdUp))

C7_Witness ==
  /\ call.fn = "calculateConsistencyScore"
  /\ call.values = <<Num(10), Num(30)>>
  /\ ret = Num(50)

\* C8: compareValues(a, b) is 'equal' exactly when |a - b| < 0.01, otherwise
\* 'higher' when a > b and 'lower' when a < b; so compareValues(a, b) is
\* 'higher' exactly when compareValues(b, a) is 'lower'.
C8_CompareValues ==
  call.fn = "compareValues" =>
    LET diff == call.a.n * call.b.d - call.b.n * call.a.d   \* (a - b) * a.d * b.d
        close == 100 * Abs(diff) < call.a.d * call.b.d
    IN  /\ (ret = "equal") <=> close
        /\ (ret = "higher") <=> (~close /\ diff > 0)
        /\ (ret = "lower") <=> (~close /\ diff < 0)
        /\ (ret = "higher") <=> (compareValues(call.b, call.a) = "lower")

C8_Witness ==
  /\ call.fn = "compareValues"
  /\ call.a = Fin(1, 100)
  /\ call.b = Num(0)
  /\ ret = "higher"

----------------------------------------------------------------------------
(* The engine singleton: getAnalyticsEngine and the callers that hold the   *)
(* engine it returned.  held.for[c] is the roster client c last passed to   *)
(* getAnalyticsEngine, held.latest the client that called it last.          *)

Clients == {"A", "B"}

EngineBatsman ==
  [MkPlayer(1, <<"R", "o">>, "Batsman", "a.png") EXCEPT
     !.battingAverage = Num(45), !.fitnessScore = Num(90)]
\* a bowler who has not batted: battingAverage <= 20, no runsPerMatch
EngineBowler ==
  [MkPlayer(2, <<"J", "a">>, "Bowler", "b.png") EXCEPT
     !.battingAverage = Num(10), !.wickets = Num(20), !.matchesPlayed = Num(10),
     !.runsPerMatch = <<>>, !.wicketsPerMatch = <<>>, !.fieldingRating = Num(85)]
EngineAllRounder ==
  [MkPlayer(3, <<"H", "a">>, "All-Rounder", "c.png") EXCEPT
     !.battingAverage = Num(25), !.fitnessScore = Num(70),
     !.runsPerMatch = <<Num(80), Num(10)>>, !.wicketsPerMatch = <<Num(3), Num(0)>>]

EngineRosters ==
  { <<>>, <<EngineBowler>>, <<EngineBatsman>>, <<EngineBatsman, EngineAllRounder>>,
    <<EngineAllRounder, EngineBowler, EngineBatsman>> }

OpponentStrengths == {Num(-100), Num(75), Num(200)}
Categories == {"batting", "bowling", "fielding", "overall"}

getAnalyticsEngine_KeepFirst(instance, players) ==
  IF instance = Null THEN [players |-> players] ELSE instance

\* the singleton after getAnalyticsEngine(players): created, or updatePlayers(players)
getAnalyticsEngine(instance, players) ==
  IF instance = Null THEN [players |-> players]
  ELSE [instance EXCEPT !.players = players]

InitEngine ==
  /\ call = [fn |-> "none"]
  /\ ret = Null
  /\ analyticsEngineInstance = Null
  /\ held = [for |-> [c \in Clients |-> Null], latest |-> "none"]
  /\ DataIdle

GetAnalyticsEngine == \E c \in Clients, players \in EngineRosters :
  /\ analyticsEngineInstance' = getAnalyticsEngine(analyticsEngineInstance, players)
  /\ held' = [for |-> [held.for EXCEPT ![c] = Some(players)], latest |-> c]
  /\ call' = [fn |-> "none"]
  /\ ret' = Null
  /\ UNCHANGED <<dataVars, uiVars>>

EngineAnalyzeTeam == \E c \in Clients :
  /\ held.for[c] # Null
  /\ call' = [fn |-> "analyzeTeam", client |-> c]
  /\ ret' = analyzeTeam(analyticsEngineInstance.players)
  /\ UNCHANGED <<engineVars, dataVars, uiVars>>

EngineSimulateMatch == \E c \in Clients, opponentStrength \in OpponentStrengths :
  /\ held.for[c] # Null
  /\ call' = [fn |-> "simulateMatch", client |-> c, opponentStrength |-> opponentStrength]
  /\ ret' = simulateMatch(analyticsEngineInstance.players, opponentStrength)
  /\ UNCHANGED <<engineVars, dataVars, uiVars>>

EngineGetTopPerformers == \E c \in Clients, category \in Categories, count \in {1, 5} :
  /\ held.for[c] # Null
  /\ call' = [fn |-> "getTopPerformers", client |-> c, category |-> category,
              count |-> count]
  /\ ret' = getTopPerformers(analyticsEngineInstance.players, category, count)
  /\ UNCHANGED <<engineVars, dataVars, uiVars>>

NextEngine ==
  \/ GetAnalyticsEngine \/ EngineAnalyzeTeam \/ EngineSimulateMatch
  \/ EngineGetTopPerformers

SpecEngine == InitEngine /\ [][NextEngine]_vars

----------------------------------------------------------------------------
(* Claims about the engine, checked under SpecEngine *)

\* C2: for every roster the engine holds and every opponentStrength,
\* simulateMatch returns a winProbability that is a number between 10 and 90.
C2_WinProbabilityClamped ==
  call.fn = "simulateMatch" =>
    /\ IsFin(ret.winProbability)
    /\ ret.winProbability.n >= 10 * ret.winProbability.d
    /\ ret.winProbability.n <= 90 * ret.winProbability.d

\* what the engine's methods return for a given roster
EngineResult(c, players) ==
  IF c.fn = "analyzeTeam" THEN analyzeTeam(players)
  ELSE IF c.fn = "simulateMatch" THEN simulateMatch(players, c.opponentStrength)
  ELSE getTopPerformers(players, c.category, c.count)

----------------------------------------------------------------------------
(* services/dataService: class DataService over window.localStorage.        *)
(* A stored string is modelled by the JSON value it encodes.                *)

cacheExpiry == 300000

\* the default roster of data/players
initialPlayers ==
  << [MkPlayer(1, <<"R", "o">>, "Batsman", "a.png") EXCEPT !.battingAverage = Num(45)],
     MkPlayer(2, <<"J", "a">>, "Bowler", "b.png") >>

defaultSettings ==
  [theme |-> "neon", autoSave |-> TRUE, analyticsRefreshRate |-> 30,
   showPredictions |-> TRUE, defaultView |-> "analytics"]

NumberFields == {"battingAverage", "strikeRate", "bowlingEconomy", "fitnessScore",
                 "fieldingRating", "totalRuns", "wickets", "matchesPlayed", "catches",
                 "fours", "sixes"}
ArrayFields == {"runsPerMatch", "wicketsPerMatch"}

\* JSON.stringify of a number: NaN and the infinities are written as null
JsonNumber(x) == IF x.k \in {"nan", "inf"} THEN JsNull ELSE x
\* inside an array undefined is written as null too
JsonElement(x) == IF x.k \in {"nan", "inf", "undef"} THEN JsNull ELSE x

\* JSON.parse(JSON.stringify(player)); a property holding undefined is dropped,
\* and reads back as undefined
JsonPlayer(player) ==
  [f \in DOMAIN player |->
     IF f \in NumberFields THEN JsonNumber(player[f])
     ELSE IF f \in ArrayFields
          THEN [i \in 1..Len(player[f]) |-> JsonElement(player[f][i])]
     ELSE player[f]]

JsonPlayers(players) == [i \in 1..Len(players) |-> JsonPlayer(players[i])]

Ok == [success |-> TRUE]
OkData(d) == [success |-> TRUE, data |-> d]
Fail(e) == [success |-> FALSE, error |-> e]

RECURSIVE TrimStart(_)
TrimStart(str) == IF str # <<>> /\ str[1] = " " THEN TrimStart(Tail(str)) ELSE str
RECURSIVE TrimEnd(_)
TrimEnd(str) ==
  IF str # <<>> /\ str[Len(str)] = " " THEN TrimEnd(SubSeq(str, 1, Len(str) - 1)) ELSE str
\* String.prototype.trim
Trim(str) == TrimEnd(TrimStart(str))

\* x !== undefined && (x < lo || x > hi)
OutOfRange(x, lo, hi) == x.k # "undef" /\ (JsLt(x, Num(lo)) \/ JsGt(x, Num(hi)))

validatePlayer_NarrowStrikeRate(player) ==
  IF player.name = <<>> \/ Len(Trim(player.name)) < 2
  THEN Fail("Player name must be at least 2 characters")
  ELSE IF player.role \notin Roles THEN Fail("Invalid player role")
  ELSE IF OutOfRange(player.battingAverage, 0, 100)
  THEN Fail("Batting average must be between 0 and 100")
  ELSE IF OutOfRange(player.strikeRate, 0, 100)
  THEN Fail("Strike rate must be between 0 and 300")
  ELSE Ok

validatePlayer_NoRanges(player) ==
  IF player.name = <<>> \/ Len(Trim(player.name)) < 2
  THEN Fail("Player name must be at least 2 characters")
  ELSE IF player.role \notin Roles THEN Fail("Invalid player role")
  ELSE Ok

\* a missing or empty name is <<>>, a missing or empty role is ""
validatePlayer(player) ==
  IF player.name = <<>> \/ Len(Trim(player.name)) < 2
  THEN Fail("Player name must be at least 2 characters")
  ELSE IF player.role \notin Roles THEN Fail("Invalid player role")
  ELSE IF OutOfRange(player.battingAverage, 0, 100)
  THEN Fail("Batting average must be between 0 and 100")
  ELSE IF OutOfRange(player.strikeRate, 0, 300)
  THEN Fail("Strike rate must be between 0 and 300")
  ELSE IF OutOfRange(player.bowlingEconomy, 0, 20)
  THEN Fail("Bowling economy must be between 0 and 20")
  ELSE IF OutOfRange(player.fitnessScore, 0, 100)
  THEN Fail("Fitness score must be between 0 and 100")
  ELSE Ok

\* the image of the first initial player with the same id or the same name
syncPlayerImages(players) ==
  [i \in 1..Len(players) |->
     LET player == players[i]
         found == {j \in 1..Len(initialPlayers) :
                     initialPlayers[j].id = player.id
                     \/ initialPlayers[j].name = player.name}
     IN  IF found # {}
         THEN LET initialPlayer ==
                    initialPlayers[CHOOSE j \in found : \A m \in found : j <= m]
              IN  IF initialPlayer.image # ""
                  THEN [player EXCEPT !.image = initialPlayer.image]
                  ELSE player
         ELSE player]

\* getFromCache(STORAGE_KEY): Null, or Some(the cached roster)
getFromCache(c) ==
  IF c # Null /\ now - c.timestamp < cacheExpiry THEN Some(c.data) ELSE Null

setCache(data) == [data |-> data, timestamp |-> now]

\* savePlayers(players) on storage ls and cache c: [resp, ls, cache] afterwards
savePlayers(ls, c, players) ==
  IF quotaFull
  THEN [resp |-> Fail("Failed to save players"), ls |-> ls, cache |-> c]
  ELSE [resp |-> Ok,
        ls |-> [ls EXCEPT !.players = Some(JsonPlayers(players))],
        cache |-> setCache(players)]

\* getAllPlayers() on storage ls and cache c: [resp, ls, cache] afterwards
getAllPlayers(ls, c) ==
  LET cached == getFromCache(c)
  IN  IF cached # Null
      THEN [resp |-> OkData(syncPlayerImages(cached.v)), ls |-> ls, cache |-> c]
      ELSE IF ls.players # Null
      THEN LET playersWithImages == syncPlayerImages(ls.players.v)
           IN  IF quotaFull
               THEN [resp |-> Fail("Failed to load players"), ls |-> ls,
                     cache |-> setCache(playersWithImages)]
               ELSE [resp |-> OkData(playersWithImages),
                     ls |-> [ls EXCEPT !.players = Some(JsonPlayers(playersWithImages))],
                     cache |-> setCache(playersWithImages)]
      ELSE LET saved == savePlayers(ls, c, initialPlayers)
           IN  [resp |-> OkData(initialPlayers), ls |-> saved.ls, cache |-> saved.cache]

\* getHistory() without a limit
getHistory(ls) == IF ls.history # Null THEN ls.history.v ELSE <<>>

\* `${Date.now()}-${random}`: the model hands out ids that were never used
generateId(n) == 100 + n

IdsOf(players) == {players[i].id : i \in 1..Len(players)}

\* players.findIndex(p => p.id === id), 1-based, 0 when there is none
FindIndex(players, id) ==
  IF id \in IdsOf(players)
  THEN CHOOSE i \in 1..Len(players) :
         players[i].id = id /\ \A j \in 1..(i - 1) : players[j].id # id
  ELSE 0

\* { ...player, ...updates }
Merge(player, updates) ==
  [f \in DOMAIN player |-> IF f \in DOMAIN updates THEN updates[f] ELSE player[f]]

recalculateBattingAverage(player, newRuns) ==
  LET totalRuns == JsAdd(player.totalRuns, newRuns)
      matches == JsAdd(player.matchesPlayed, Num(1))
  IN  JsDiv(MathRound(JsMul(JsDiv(totalRuns, matches), Num(100))), Num(100))

StatsUpdate_NoSlice(player, matchStats) ==
  [totalRuns |-> JsAdd(player.totalRuns, matchStats.runs),
   wickets |-> JsAdd(player.wickets, matchStats.wickets),
   matchesPlayed |-> JsAdd(player.matchesPlayed, Num(1)),
   runsPerMatch |-> Append(player.runsPerMatch, matchStats.runs),
   wicketsPerMatch |-> Append(player.wicketsPerMatch, matchStats.wickets),
   battingAverage |-> recalculateBattingAverage(player, matchStats.runs)]

\* the Partial<Player> that updatePlayerStats passes to updatePlayer
StatsUpdate(player, matchStats) ==
  [totalRuns |-> JsAdd(player.totalRuns, matchStats.runs),
   wickets |-> JsAdd(player.wickets, matchStats.wickets),
   matchesPlayed |-> JsAdd(player.matchesPlayed, Num(1)),
   runsPerMatch |-> Append(SliceLast(player.runsPerMatch, 9), matchStats.runs),
   wicketsPerMatch |-> Append(SliceLast(player.wicketsPerMatch, 9), matchStats.wickets),
   battingAverage |-> recalculateBattingAverage(player, matchStats.runs)]

ValidateAll_FirstOnly(players) ==
  IF players = <<>> THEN Ok ELSE validatePlayer(players[1])

\* the first validation error among the players of an import, or Ok
RECURSIVE ValidateAll(_)
ValidateAll(players) ==
  IF players = <<>> THEN Ok
  ELSE LET validation == validatePlayer(players[1])
       IN  IF ~validation.success THEN validation ELSE ValidateAll(Tail(players))

\* importData up to its first await: Fail(...) when the payload is rejected,
\* else Ok.  A payload is [valid, version, players, settings]: valid says
\* whether JSON.parse accepts the text.
CheckImport(json) ==
  IF ~json.valid THEN Fail("Failed to import data")
  ELSE IF json.version = Null \/ json.players = Null THEN Fail("Invalid data format")
  ELSE LET validation == ValidateAll(json.players.v)
       IN  IF ~validation.success
           THEN [success |-> FALSE, error |-> validation.error,
                 prefix |-> "Invalid player data: "]
           ELSE Ok

\* JSON.stringify(exportData, null, 2): a property holding undefined is dropped
ExportJson(players, settings, history) ==
  [valid |-> TRUE, version |-> Some("1.0"), exportDate |-> now,
   players |-> IF players.success THEN Some(JsonPlayers(players.data)) ELSE Null,
   settings |-> IF settings.success THEN Some(settings.data) ELSE Null,
   history |-> Some(history)]

----------------------------------------------------------------------------
(* The dataService singleton used by overlapping callers.  An async method  *)
(* runs without interruption up to its next await; the awaited parts of two *)
(* calls interleave.  procs[s] is the frame of the call in slot s: its      *)
(* method, the await it is suspended at, its arguments and locals, and,     *)
(* once it has returned, its result.                                        *)

MaxCalls == 3
MaxTicks == 1
Slots == {1, 2}

Idle == [op |-> "none", pc |-> "idle"]

\* Omit<Player, 'id'>
WithoutId(player) == [f \in DOMAIN player \ {"id"} |-> player[f]]
\* { ...playerData, id }
WithId(playerData, id) ==
  [f \in DOMAIN playerData \cup {"id"} |-> IF f = "id" THEN id ELSE playerData[f]]

ValidNewPlayer == WithoutId(MkPlayer(0, <<"R", "o">>, "All-Rounder", "x.png"))
NewPlayers ==
  { ValidNewPlayer,
    [ValidNewPlayer EXCEPT !.name = <<" ", "A", " ">>],
    [ValidNewPlayer EXCEPT !.role = "Coach"],
    [ValidNewPlayer EXCEPT !.battingAverage = Num(101)],
    [ValidNewPlayer EXCEPT !.strikeRate = Num(301)],
    [ValidNewPlayer EXCEPT !.bowlingEconomy = Num(21)],
    [ValidNewPlayer EXCEPT !.fitnessScore = Num(-1)] }


\* the id of an initial player, and an id no player has
PlayerIds == {1, 9}
PlayerUpdates == { [image |-> "y.png"], [battingAverage |-> Num(150)] }
MatchStats == { [runs |-> Num(50), wickets |-> Num(1)] }

ImportedPlayer == MkPlayer(7, <<"K", "L">>, "Wicket-Keeper", "k.png")
importedSettings == [defaultSettings EXCEPT !.theme = "dark"]
NotJson == [valid |-> FALSE, version |-> Null, players |-> Null, settings |-> Null]
NoVersion ==
  [valid |-> TRUE, version |-> Null, players |-> Some(<<ImportedPlayer>>),
   settings |-> Some(importedSettings)]
NoPlayers ==
  [valid |-> TRUE, version |-> Some("1.0"), players |-> Null,
   settings |-> Some(importedSettings)]
SecondPlayerInvalid ==
  [valid |-> TRUE, version |-> Some("1.0"),
   players |-> Some(<<ImportedPlayer, [ImportedPlayer EXCEPT !.fitnessScore = Num(101)]>>),
   settings |-> Some(importedSettings)]
ValidImport ==
  [valid |-> TRUE, version |-> Some("1.0"), players |-> Some(<<ImportedPlayer>>),
   settings |-> Some(importedSettings)]
\* the texts handed to importData: a fixed catalogue and the last exported text
ImportTexts ==
  {NotJson, NoVersion, NoPlayers, SecondPlayerInvalid, ValidImport}
    \cup (IF exported # Null THEN {exported.v} ELSE {})

Init ==
  /\ call = [fn |-> "none"]
  /\ ret = Null
  /\ EngineIdle
  /\ localStorage = [players |-> Null, settings |-> Null, history |-> Null]
  /\ cache = Null
  /\ now = 0
  /\ nextId = 0
  /\ procs = [s \in Slots |-> Idle]
  /\ calls = 0
  /\ quotaFull = FALSE
  /\ exported = Null
  /\ provider = Null

statsVars == <<call, ret>>

\* a new call takes the lowest free slot
CanStart(s) ==
  /\ procs[s] = Idle
  /\ \A t \in Slots : t < s => procs[t] # Idle
  /\ calls < MaxCalls

Done(s, result) == [op |-> procs[s].op, pc |-> "done", result |-> result]

\* the `id` argument stays in scope of the caller across the awaits
WithArgs(s, frame) ==
  IF "id" \in DOMAIN procs[s] THEN frame @@ ("id" :> procs[s].id) ELSE frame

\* dataService.getAllPlayers()
GetAllPlayersCall(s) ==
  /\ CanStart(s)
  /\ LET response == getAllPlayers(localStorage, cache)
     IN  /\ localStorage' = response.ls
         /\ cache' = response.cache
         /\ procs' = [procs EXCEPT ![s] =
                        [op |-> "getAllPlayers", pc |-> "done", result |-> response.resp]]
  /\ calls' = calls + 1
  /\ UNCHANGED <<statsVars, engineVars, uiVars, now, nextId, quotaFull, exported>>

\* addPlayer up to `await this.getAllPlayers()`
AddPlayerStart(s, playerData) ==
  /\ CanStart(s)
  /\ LET validation == validatePlayer(playerData)
     IN  IF ~validation.success
         THEN /\ procs' = [procs EXCEPT ![s] =
                             [op |-> "addPlayer", pc |-> "done",
                              playerData |-> playerData,
                              result |-> Fail(validation.error)]]
              /\ UNCHANGED <<localStorage, cache>>
         ELSE LET response == getAllPlayers(localStorage, cache)
              IN  /\ localStorage' = response.ls
                  /\ cache' = response.cache
                  /\ procs' = [procs EXCEPT ![s] =
                                 [op |-> "addPlayer", pc |-> "save",
                                  playerData |-> playerData,
                                  response |-> response.resp]]
  /\ calls' = calls + 1
  /\ UNCHANGED <<statsVars, engineVars, uiVars, now, nextId, quotaFull, exported>>

\* addPlayer from the fetched response up to `await this.savePlayers(...)`
AddPlayerSave(s) ==
  /\ procs[s].op = "addPlayer"
  /\ procs[s].pc = "save"
  /\ LET response == procs[s].response
     IN  IF ~response.success
         THEN /\ procs' = [procs EXCEPT ![s] = Done(s, Fail("Failed to fetch players"))]
              /\ UNCHANGED <<localStorage, cache, nextId>>
         ELSE LET newPlayer == WithId(procs[s].playerData, generateId(nextId))
                  saved == savePlayers(localStorage, cache,
                                       Append(response.data, newPlayer))
              IN  /\ nextId' = nextId + 1
                  /\ localStorage' = saved.ls
                  /\ cache' = saved.cache
                  /\ procs' = [procs EXCEPT ![s] =
                                 [op |-> "addPlayer", pc |-> "history",
                                  entry |-> [action |-> "add",
                                             playerId |-> newPlayer.id,
                                             playerName |-> newPlayer.name,
                                             details |-> <<"Added", newPlayer.role,
                                                           "to squad">>],
                                  result |-> OkData(newPlayer)]]
  /\ UNCHANGED <<statsVars, engineVars, uiVars, now, calls, quotaFull, exported>>

\* addHistoryEntry up to `await this.getHistory()`
HistoryRead(s) ==
  /\ procs[s].pc = "history"
  /\ procs' = [procs EXCEPT ![s] =
                 WithArgs(s, [op |-> procs[s].op, pc |-> "historyWrite",
                              entry |-> procs[s].entry,
                              history |-> getHistory(localStorage),
                              result |-> procs[s].result])]
  /\ UNCHANGED <<statsVars, engineVars, uiVars, localStorage, cache, now, nextId, calls,
                 quotaFull, exported>>

\* the rest of addHistoryEntry, and the caller's return
HistoryWrite(s) ==
  /\ procs[s].pc = "historyWrite"
  /\ LET newEntry == [action |-> procs[s].entry.action,
                      playerId |-> procs[s].entry.playerId,
                      playerName |-> procs[s].entry.playerName,
                      details |-> procs[s].entry.details,
                      id |-> generateId(nextId), timestamp |-> now]
         updatedHistory == Append(SliceLast(procs[s].history, 99), newEntry)
     IN  localStorage' = IF quotaFull THEN localStorage
                         ELSE [localStorage EXCEPT !.history = Some(updatedHistory)]
  /\ nextId' = nextId + 1
  /\ procs' = [procs EXCEPT ![s] = WithArgs(s, Done(s, procs[s].result))]
  /\ UNCHANGED <<statsVars, engineVars, uiVars, cache, now, calls, quotaFull, exported>>

\* updatePlayer up to `await this.getAllPlayers()`
UpdatePlayerStart(s, id, updates) ==
  /\ CanStart(s)
  /\ LET response == getAllPlayers(localStorage, cache)
     IN  /\ localStorage' = response.ls
         /\ cache' = response.cache
         /\ procs' = [procs EXCEPT ![s] =
                        [op |-> "updatePlayer", pc |-> "save", id |-> id,
                         updates |-> updates, response |-> response.resp]]
  /\ calls' = calls + 1
  /\ UNCHANGED <<statsVars, engineVars, uiVars, now, nextId, quotaFull, exported>>

\* updatePlayer from the fetched response up to `await this.savePlayers(...)`;
\* also the updatePlayer that updatePlayerStats calls
UpdatePlayerSave(s) ==
  /\ procs[s].op \in {"updatePlayer", "updatePlayerStats"}
  /\ procs[s].pc = "save"
  /\ LET response == procs[s].response
         id == procs[s].id
         playerIndex == FindIndex(response.data, id)
         updatedPlayer == Merge(response.data[playerIndex], procs[s].updates)
         validation == validatePlayer(updatedPlayer)
     IN  IF ~response.success
         THEN /\ procs' = [procs EXCEPT ![s] = Done(s, Fail("Failed to fetch players"))]
              /\ UNCHANGED <<localStorage, cache>>
         ELSE IF playerIndex = 0
         THEN /\ procs' = [procs EXCEPT ![s] = Done(s, Fail("Player not found"))]
              /\ UNCHANGED <<localStorage, cache>>
         ELSE IF ~validation.success
         THEN /\ procs' = [procs EXCEPT ![s] = Done(s, Fail(validation.error))]
              /\ UNCHANGED <<localStorage, cache>>
         ELSE LET saved == savePlayers(localStorage, cache,
                             [response.data EXCEPT ![playerIndex] = updatedPlayer])
              IN  /\ localStorage' = saved.ls
                  /\ cache' = saved.cache
                  /\ procs' = [procs EXCEPT ![s] =
                                 [op |-> procs[s].op, pc |-> "history", id |-> id,
                                  entry |-> [action |-> "update", playerId |-> id,
                                             playerName |-> updatedPlayer.name,
                                             details |-> <<"Updated player stats">>],
                                  result |-> OkData(updatedPlayer)]]
  /\ UNCHANGED <<statsVars, engineVars, uiVars, now, nextId, calls, quotaFull, exported>>

\* deletePlayer up to `await this.getAllPlayers()`
DeletePlayerStart(s, id) ==
  /\ CanStart(s)
  /\ LET response == getAllPlayers(localStorage, cache)
     IN  /\ localStorage' = response.ls
         /\ cache' = response.cache
         /\ procs' = [procs EXCEPT ![s] =
                        [op |-> "deletePlayer", pc |-> "save", id |-> id,
                         response |-> response.resp]]
  /\ calls' = calls + 1
  /\ UNCHANGED <<statsVars, engineVars, uiVars, now, nextId, quotaFull, exported>>

\* players.filter(p => p.id !== id)
RECURSIVE WithoutPlayer(_, _)
WithoutPlayer(players, id) ==
  IF players = <<>> THEN <<>>
  ELSE IF Head(players).id = id THEN WithoutPlayer(Tail(players), id)
  ELSE <<Head(players)>> \o WithoutPlayer(Tail(players), id)

\* deletePlayer from the fetched response up to `await this.savePlayers(...)`
DeletePlayerSave(s) ==
  /\ procs[s].op = "deletePlayer"
  /\ procs[s].pc = "save"
  /\ LET response == procs[s].response
         id == procs[s].id
         playerIndex == FindIndex(response.data, id)
     IN  IF ~response.success
         THEN /\ procs' = [procs EXCEPT ![s] = Done(s, Fail("Failed to fetch players"))]
              /\ UNCHANGED <<localStorage, cache>>
         ELSE IF playerIndex = 0
         THEN /\ procs' = [procs EXCEPT ![s] = Done(s, Fail("Player not found"))]
              /\ UNCHANGED <<localStorage, cache>>
         ELSE LET saved == savePlayers(localStorage, cache,
                                       WithoutPlayer(response.data, id))
              IN  /\ localStorage' = saved.ls
                  /\ cache' = saved.cache
                  /\ procs' = [procs EXCEPT ![s] =
                                 [op |-> "deletePlayer", pc |-> "history", id |-> id,
                                  entry |-> [action |-> "delete", playerId |-> id,
                                             playerName |->
                                               response.data[playerIndex].name,
                                             details |-> <<"Removed from squad">>],
                                  result |-> Ok]]
  /\ UNCHANGED <<statsVars, engineVars, uiVars, now, nextId, calls, quotaFull, exported>>

\* updatePlayerStats up to `await this.getPlayerById(playerId)`, which runs up
\* to its own `await this.getAllPlayers()`
UpdatePlayerStatsStart(s, playerId, matchStats) ==
  /\ CanStart(s)
  /\ LET response == getAllPlayers(localStorage, cache)
     IN  /\ localStorage' = response.ls
         /\ cache' = response.cache
         /\ procs' = [procs EXCEPT ![s] =
                        [op |-> "updatePlayerStats", pc |-> "apply", id |-> playerId,
                         matchStats |-> matchStats, response |-> response.resp]]
  /\ calls' = calls + 1
  /\ UNCHANGED <<statsVars, engineVars, uiVars, now, nextId, quotaFull, exported>>

\* the rest of getPlayerById, then updatePlayerStats up to the
\* `await this.getAllPlayers()` of the updatePlayer it calls
UpdatePlayerStatsApply(s) ==
  /\ procs[s].op = "updatePlayerStats"
  /\ procs[s].pc = "apply"
  /\ LET playerResponse == procs[s].response
         playerId == procs[s].id
         found == playerResponse.success
                    /\ FindIndex(playerResponse.data, playerId) # 0
     IN  IF ~found
         THEN /\ procs' = [procs EXCEPT ![s] = Done(s, Fail("Player not found"))]
              /\ UNCHANGED <<localStorage, cache>>
         ELSE LET player == playerResponse.data[FindIndex(playerResponse.data, playerId)]
                  response == getAllPlayers(localStorage, cache)
              IN  /\ localStorage' = response.ls
                  /\ cache' = response.cache
                  /\ procs' = [procs EXCEPT ![s] =
                                 [op |-> "updatePlayerStats", pc |-> "save",
                                  id |-> playerId, player |-> player,
                                  matchStats |-> procs[s].matchStats,
                                  updates |-> StatsUpdate(player, procs[s].matchStats),
                                  response |-> response.resp]]
  /\ UNCHANGED <<statsVars, engineVars, uiVars, now, nextId, calls, quotaFull, exported>>

\* saveSettings(settings) on storage ls: the storage afterwards
saveSettings(ls, settings) ==
  IF quotaFull THEN ls ELSE [ls EXCEPT !.settings = Some(settings)]

\* importData up to `await this.savePlayers(data.players)`
ImportDataStart(s, jsonData) ==
  /\ CanStart(s)
  /\ LET checked == CheckImport(jsonData)
     IN  IF ~checked.success
         THEN /\ procs' = [procs EXCEPT ![s] =
                             [op |-> "importData", pc |-> "done",
                              jsonData |-> jsonData, result |-> checked]]
              /\ UNCHANGED <<localStorage, cache>>
         ELSE LET saved == savePlayers(localStorage, cache, jsonData.players.v)
              IN  /\ localStorage' = saved.ls
                  /\ cache' = saved.cache
                  /\ procs' = [procs EXCEPT ![s] =
                                 [op |-> "importData", pc |-> "settings",
                                  jsonData |-> jsonData]]
  /\ calls' = calls + 1
  /\ UNCHANGED <<statsVars, engineVars, uiVars, now, nextId, quotaFull, exported>>

\* `if (data.settings) await this.saveSettings(data.settings)` and the return
ImportDataSettings(s) ==
  /\ procs[s].op = "importData"
  /\ procs[s].pc = "settings"
  /\ localStorage' = IF procs[s].jsonData.settings # Null
                     THEN saveSettings(localStorage, procs[s].jsonData.settings.v)
                     ELSE localStorage
  /\ procs' = [procs EXCEPT ![s] =
                 [op |-> "importData", pc |-> "done",
                  jsonData |-> procs[s].jsonData, result |-> Ok]]
  /\ UNCHANGED <<statsVars, engineVars, uiVars, cache, now, nextId, calls, quotaFull, exported>>

\* exportData up to `await this.getAllPlayers()`
ExportDataStart(s) ==
  /\ CanStart(s)
  /\ LET response == getAllPlayers(localStorage, cache)
     IN  /\ localStorage' = response.ls
         /\ cache' = response.cache
         /\ procs' = [procs EXCEPT ![s] =
                        [op |-> "exportData", pc |-> "settings",
                         players |-> response.resp]]
  /\ calls' = calls + 1
  /\ UNCHANGED <<statsVars, engineVars, uiVars, now, nextId, quotaFull, exported>>

\* exportData up to `await this.getSettings()`; getSettings stores the defaults
\* when no settings are stored
ExportDataSettings(s) ==
  /\ procs[s].op = "exportData"
  /\ procs[s].pc = "settings"
  /\ IF localStorage.settings # Null
     THEN /\ procs' = [procs EXCEPT ![s] =
                         [op |-> "exportData", pc |-> "finish",
                          players |-> procs[s].players,
                          settings |-> OkData(localStorage.settings.v)]]
          /\ UNCHANGED localStorage
     ELSE /\ procs' = [procs EXCEPT ![s] =
                         [op |-> "exportData", pc |-> "finish",
                          players |-> procs[s].players,
                          settings |-> OkData(defaultSettings)]]
          /\ localStorage' = saveSettings(localStorage, defaultSettings)
  /\ UNCHANGED <<statsVars, engineVars, uiVars, cache, now, nextId, calls, quotaFull, exported>>

\* exportData from `await this.getHistory()` to its return; the returned text
\* is kept in exported
ExportDataFinish(s) ==
  /\ procs[s].op = "exportData"
  /\ procs[s].pc = "finish"
  /\ LET text == ExportJson(procs[s].players, procs[s].settings,
                            getHistory(localStorage))
     IN  /\ exported' = Some(text)
         /\ procs' = [procs EXCEPT ![s] =
                        [op |-> "exportData", pc |-> "done",
                         players |-> procs[s].players, result |-> OkData(text)]]
  /\ UNCHANGED <<statsVars, engineVars, uiVars, localStorage, cache, now, nextId, calls,
                 quotaFull>>

\* resetToDefaults up to `await this.savePlayers(initialPlayers)`
ResetToDefaultsStart(s) ==
  /\ CanStart(s)
  /\ LET saved == savePlayers(localStorage, cache, initialPlayers)
     IN  /\ localStorage' = saved.ls
         /\ cache' = saved.cache
  /\ procs' = [procs EXCEPT ![s] = [op |-> "resetToDefaults", pc |-> "clear"]]
  /\ calls' = calls + 1
  /\ UNCHANGED <<statsVars, engineVars, uiVars, now, nextId, quotaFull, exported>>

\* this.clearCache() and the return
ResetToDefaultsClear(s) ==
  /\ procs[s].op = "resetToDefaults"
  /\ procs[s].pc = "clear"
  /\ cache' = Null
  /\ procs' = [procs EXCEPT ![s] = Done(s, Ok)]
  /\ UNCHANGED <<statsVars, engineVars, uiVars, localStorage, now, nextId, calls, quotaFull,
                 exported>>

\* the caller receives the result; the slot is free again
Return(s) ==
  /\ procs[s].pc = "done"
  /\ procs' = [procs EXCEPT ![s] = Idle]
  /\ UNCHANGED <<statsVars, engineVars, uiVars, localStorage, cache, now, nextId, calls,
                 quotaFull, exported>>

\* Date.now() advances; one tick is as long as the cache lives
Tick ==
  /\ now < MaxTicks * cacheExpiry
  /\ now' = now + cacheExpiry
  /\ UNCHANGED <<statsVars, engineVars, uiVars, localStorage, cache, nextId, procs, calls,
                 quotaFull, exported>>

Next ==
  \/ \E s \in Slots : GetAllPlayersCall(s)
  \/ \E s \in Slots, playerData \in NewPlayers : AddPlayerStart(s, playerData)
  \/ \E s \in Slots : AddPlayerSave(s)
  \/ \E s \in Slots : HistoryRead(s)
  \/ \E s \in Slots : HistoryWrite(s)
  \/ \E s \in Slots, id \in PlayerIds, updates \in PlayerUpdates :
       UpdatePlayerStart(s, id, updates)
  \/ \E s \in Slots : UpdatePlayerSave(s)
  \/ \E s \in Slots, id \in PlayerIds : DeletePlayerStart(s, id)
  \/ \E s \in Slots : DeletePlayerSave(s)
  \/ \E s \in Slots, id \in PlayerIds, matchStats \in MatchStats :
       UpdatePlayerStatsStart(s, id, matchStats)
  \/ \E s \in Slots : UpdatePlayerStatsApply(s)
  \/ \E s \in Slots, jsonData \in ImportTexts : ImportDataStart(s, jsonData)
  \/ \E s \in Slots : ImportDataSettings(s)
  \/ \E s \in Slots : ExportDataStart(s)
  \/ \E s \in Slots : ExportDataSettings(s)
  \/ \E s \in Slots : ExportDataFinish(s)
  \/ \E s \in Slots : ResetToDefaultsStart(s)
  \/ \E s \in Slots : ResetToDefaultsClear(s)
  \/ \E s \in Slots : Return(s)
  \/ Tick

Spec == Init /\ [][Next]_vars

----------------------------------------------------------------------------
(* Claims about dataService, checked under Spec.                            *)

\* what a getAllPlayers() called in the current state returns
Served == getAllPlayers(localStorage, cache).resp

\* the rejections the validation rules list, written on the numbers directly
Outside(x, lo, hi) == JsLt(x, Num(lo)) \/ JsGt(x, Num(hi))
FailsValidation(player) ==
  \/ Len(Trim(player.name)) < 2
  \/ player.role \notin {"Batsman", "Bowler", "All-Rounder", "Wicket-Keeper"}
  \/ Outside(player.battingAverage, 0, 100)
  \/ Outside(player.strikeRate, 0, 300)
  \/ Outside(player.bowlingEconomy, 0, 20)
  \/ Outside(player.fitnessScore, 0, 100)

Starts(s, op) == procs[s] = Idle /\ procs'[s].op = op
Rejected(s) ==
  /\ procs'[s].pc = "done"
  /\ ~procs'[s].result.success
  /\ "error" \in DOMAIN procs'[s].result

C4_OverlappingAddsBothStored ==
  [][\A s, t \in Slots :
       (/\ s # t
        /\ procs[s].op = "addPlayer" /\ procs[s].pc = "save"
        /\ procs'[s].pc = "history"
        /\ procs[t].op = "addPlayer"
        /\ procs[t].pc \in {"history", "historyWrite", "done"}
        /\ procs[t].result.success
        /\ procs[t].result.data.id \in IdsOf(localStorage.players.v))
       => {procs[t].result.data.id, procs'[s].result.data.id}
            \subseteq IdsOf(localStorage'.players.v)]_vars

\* the call in slot s is an updatePlayer or deletePlayer that will fail on the
\* roster it fetched
BoundToFail(frame) ==
  /\ frame.op \in {"updatePlayer", "deletePlayer"}
  /\ frame.pc = "save"
  /\ \/ frame.id \notin IdsOf(frame.response.data)
     \/ /\ frame.op = "updatePlayer"
        /\ FailsValidation(Merge(frame.response.data[FindIndex(frame.response.data,
                                                               frame.id)],
                                 frame.updates))

\* the steps of failing calls that follow the fetch of the roster: an
\* addPlayer with invalid data, and the updatePlayer or deletePlayer that
\* fails on the roster it fetched
C9_FailingSteps(s) ==
  /\ (Starts(s, "addPlayer") /\ FailsValidation(procs'[s].playerData))
       => Rejected(s) /\ localStorage' = localStorage /\ cache' = cache
  /\ (BoundToFail(procs[s]) /\ procs'[s] # procs[s])
       => Rejected(s) /\ localStorage' = localStorage /\ cache' = cache

\* C9 (as stated): a failing addPlayer, updatePlayer or deletePlayer returns
\* success = false with an error and, from its call to its return, leaves a
\* stored roster and the stored history as they were.
C9_FailedOperationLeavesStoreUnchanged ==
  [][\A s \in Slots :
       /\ C9_FailingSteps(s)
       /\ (procs[s] = Idle /\ BoundToFail(procs'[s]) /\ localStorage.players # Null)
            => /\ localStorage'.players = localStorage.players
               /\ localStorage'.history = localStorage.history]_vars

\* C9 (amended): a failing addPlayer, updatePlayer or deletePlayer returns
\* success = false with an error and leaves the stored history and the roster
\* that getAllPlayers returns as they were; an invalid addPlayer writes
\* nothing at all, and a failing updatePlayer or deletePlayer writes only what
\* its getAllPlayers writes.
C9_FailedOperationLeavesRosterUnchanged ==
  [][\A s \in Slots :
       /\ C9_FailingSteps(s)
       /\ (procs[s] = Idle /\ BoundToFail(procs'[s]))
            => /\ getAllPlayers(localStorage', cache').resp = Served
               /\ localStorage'.history = localStorage.history]_vars

\* with an imported roster stored, an updatePlayer or deletePlayer of an id
\* that is not in the roster was rejected with 'Player not found'
C9_Witness ==
  /\ localStorage.players # Null
  /\ \E s \in Slots :
       /\ procs[s].op \in {"updatePlayer", "deletePlayer"}
       /\ procs[s].pc = "done"
       /\ ~procs[s].result.success
       /\ procs[s].result.error = "Player not found"
       /\ ImportedPlayer.id \in IdsOf(localStorage.players.v)

\* the payloads that must be rejected
BadImport(json) ==
  \/ ~json.valid
  \/ json.version = Null
  \/ json.players = Null
  \/ \E i \in 1..Len(json.players.v) : FailsValidation(json.players.v[i])

\* C10: importData of a text that is not JSON, lacks version or players, or
\* holds a player that fails validation returns success = false and changes
\* neither the stored roster, nor the stored settings, nor the cache.
C10_ImportAllOrNothing ==
  [][\A s \in Slots :
       (Starts(s, "importData") /\ BadImport(procs'[s].jsonData))
         => /\ Rejected(s)
            /\ localStorage'.players = localStorage.players
            /\ localStorage'.settings = localStorage.settings
            /\ cache' = cache]_vars

\* a payload whose first player is valid and whose second is not was rejected
\* while a roster was stored
C10_Witness ==
  /\ localStorage.players # Null
  /\ \E s \in Slots :
       /\ procs[s].op = "importData"
       /\ procs[s].pc = "done"
       /\ procs[s].jsonData = SecondPlayerInvalid
       /\ ~procs[s].result.success

----------------------------------------------------------------------------
(* The history log at its limit.  SpecHistory starts where PriorUpdates     *)
(* successful updatePlayer(1, {image}) calls, made one after the other on a *)
(* fresh store, leave the service, and runs the operations that write       *)
(* history entries from there.                                              *)

PriorUpdates == 99

\* the roster after updatePlayer(1, { image: 'y.png' })
UpdatedRoster ==
  [initialPlayers EXCEPT ![1] = Merge(initialPlayers[1], [image |-> "y.png"])]

\* the entry the i-th of those calls appended
PriorEntry(i) ==
  [action |-> "update", playerId |-> 1, playerName |-> initialPlayers[1].name,
   details |-> <<"Updated player stats">>, id |-> generateId(i - 1), timestamp |-> 0]

InitHistory ==
  /\ call = [fn |-> "none"]
  /\ ret = Null
  /\ EngineIdle
  /\ localStorage = [players |-> Some(JsonPlayers(UpdatedRoster)), settings |-> Null,
                     history |-> Some([i \in 1..PriorUpdates |-> PriorEntry(i)])]
  /\ cache = [data |-> UpdatedRoster, timestamp |-> 0]
  /\ now = 0
  /\ nextId = PriorUpdates
  /\ procs = [s \in Slots |-> Idle]
  /\ calls = 0
  /\ quotaFull = FALSE
  /\ exported = Null
  /\ provider = Null

NextHistory ==
  \/ \E s \in Slots, playerData \in NewPlayers : AddPlayerStart(s, playerData)
  \/ \E s \in Slots : AddPlayerSave(s)
  \/ \E s \in Slots, id \in PlayerIds, updates \in PlayerUpdates :
       UpdatePlayerStart(s, id, updates)
  \/ \E s \in Slots : UpdatePlayerSave(s)
  \/ \E s \in Slots, id \in PlayerIds : DeletePlayerStart(s, id)
  \/ \E s \in Slots : DeletePlayerSave(s)
  \/ \E s \in Slots, id \in PlayerIds, matchStats \in MatchStats :
       UpdatePlayerStatsStart(s, id, matchStats)
  \/ \E s \in Slots : UpdatePlayerStatsApply(s)
  \/ \E s \in Slots : HistoryRead(s)
  \/ \E s \in Slots : HistoryWrite(s)
  \/ \E s \in Slots : Return(s)

SpecHistory == InitHistory /\ [][NextHistory]_vars

StoredHistory == getHistory(localStorage)

\* C11: the stored history never holds more than 100 entries and its entries
\* are in the order they were recorded; an entry written on top of the
\* history as it is stored is appended as the newest, and the oldest entry is
\* dropped exactly when 100 are already stored.
C11_HistoryBounded ==
  [][/\ Len(getHistory(localStorage')) <= 100
     /\ \A i \in 1..(Len(getHistory(localStorage')) - 1) :
          getHistory(localStorage')[i].id < getHistory(localStorage')[i + 1].id
     /\ \A s \in Slots :
          (/\ procs[s].pc = "historyWrite"
           /\ procs'[s].pc = "done"
           /\ procs[s].history = StoredHistory)
          => LET after == getHistory(localStorage')
                 kept == IF Len(StoredHistory) < 100 THEN StoredHistory
                         ELSE Tail(StoredHistory)
             IN  /\ Len(after) = Len(kept) + 1
                 /\ SubSeq(after, 1, Len(kept)) = kept
                 /\ after[Len(after)].action = procs[s].entry.action
                 /\ after[Len(after)].playerId = procs[s].entry.playerId]_vars

\* 100 entries are stored, the oldest of the prior ones has been dropped and
\* the newest records a deletePlayer
C11_Witness ==
  /\ Len(StoredHistory) = 100
  /\ StoredHistory[1] # PriorEntry(1)
  /\ StoredHistory[100].action = "delete"

----------------------------------------------------------------------------
(* Further claims about the engine, checked under SpecEngine.               *)

\* the roster the engine holds
EngineRoster == held.for[held.latest].v

\* C12: simulateMatch(s).winProbability is round(clamp(50 + 0.5 * (teamStrength
\* - s), 10, 90)), and for the same roster a stronger opponent never gets a
\* higher win probability.
C12_WinProbabilityLinear ==
  call.fn = "simulateMatch" =>
    LET teamStrength == analyzeTeam(EngineRoster).teamStrength
        linear == JsAdd(Num(50), JsMul(Fin(1, 2),
                                      JsSub(teamStrength, call.opponentStrength)))
    IN  /\ ret.winProbability = MathRound(clamp(linear, Num(10), Num(90)))
        /\ \A s \in OpponentStrengths \cup {Num(50), Num(60)} :
             JsGe(s, call.opponentStrength)
               => JsLe(simulateMatch(EngineRoster, s).winProbability,
                       ret.winProbability)

\* the same on the rosters that have a player with battingAverage > 20
C12_WithBatsman ==
  (/\ call.fn = "simulateMatch"
   /\ \E i \in 1..Len(EngineRoster) : JsGt(EngineRoster[i].battingAverage, Num(20)))
  => C12_WinProbabilityLinear

----------------------------------------------------------------------------
(* Storage that can refuse writes.  While quotaFull holds, every            *)
(* localStorage.setItem throws (QuotaExceededError); SpecQuota lets the     *)
(* storage fill up and be freed between the steps of the roster operations. *)

\* the storage starts or stops refusing writes
QuotaChange ==
  /\ quotaFull' = ~quotaFull
  /\ UNCHANGED <<statsVars, engineVars, uiVars, localStorage, cache, now, nextId, procs,
                 calls, exported>>

NextQuota ==
  \/ QuotaChange
  \/ Tick
  \/ \E s \in Slots : GetAllPlayersCall(s)
  \/ \E s \in Slots : AddPlayerStart(s, ValidNewPlayer)
  \/ \E s \in Slots : AddPlayerSave(s)
  \/ \E s \in Slots : UpdatePlayerStart(s, 1, [image |-> "y.png"])
  \/ \E s \in Slots : UpdatePlayerSave(s)
  \/ \E s \in Slots : DeletePlayerStart(s, 1)
  \/ \E s \in Slots : DeletePlayerSave(s)
  \/ \E s \in Slots : HistoryRead(s)
  \/ \E s \in Slots : HistoryWrite(s)
  \/ \E s \in Slots : ImportDataStart(s, ValidImport)
  \/ \E s \in Slots : ImportDataSettings(s)
  \/ \E s \in Slots : ResetToDefaultsStart(s)
  \/ \E s \in Slots : ResetToDefaultsClear(s)
  \/ \E s \in Slots : Return(s)

SpecQuota == Init /\ [][NextQuota]_vars

\* the step of the call in slot s calls savePlayers with its change
CallsSavePlayers(s) ==
  \/ /\ procs[s].pc = "save"
     /\ procs'[s] # procs[s]
     /\ procs[s].response.success
     /\ procs[s].op # "addPlayer" => procs[s].id \in IdsOf(procs[s].response.data)
  \/ Starts(s, "importData") /\ ~BadImport(procs'[s].jsonData)
  \/ Starts(s, "resetToDefaults")

\* C13: when the write of the roster fails, addPlayer, updatePlayer,
\* deletePlayer, importData and resetToDefaults return success = false, and
\* no history entry is appended for them.
C13_FailedWriteIsReported ==
  [][\A s \in Slots :
       (quotaFull /\ CallsSavePlayers(s))
       => /\ Rejected(s)
          /\ localStorage' = localStorage]_vars

----------------------------------------------------------------------------
(* Match statistics.  SpecMatchStats imports a roster with a player who has *)
(* nine matches on record and a player who has none, and records matches.   *)

SeasonedPlayer ==
  [MkPlayer(5, <<"V", "K">>, "Batsman", "v.png") EXCEPT
     !.matchesPlayed = Num(9), !.totalRuns = Num(270), !.wickets = Num(9),
     !.runsPerMatch = <<Num(10), Num(20), Num(30), Num(40), Num(50), Num(60),
                        Num(30), Num(20), Num(10)>>,
     !.wicketsPerMatch = <<Num(0), Num(1), Num(2), Num(0), Num(1), Num(2),
                           Num(0), Num(1), Num(2)>>]
Rookie ==
  [MkPlayer(6, <<"N", "R">>, "Bowler", "n.png") EXCEPT
     !.matchesPlayed = Num(0), !.totalRuns = Num(0), !.wickets = Num(0),
     !.battingAverage = Num(0), !.catches = Num(0), !.fours = Num(0),
     !.sixes = Num(0), !.runsPerMatch = <<>>, !.wicketsPerMatch = <<>>]
SeasonImport ==
  [valid |-> TRUE, version |-> Some("1.0"),
   players |-> Some(<<SeasonedPlayer, Rookie>>), settings |-> Null]
\* the ids of the two, and an id no player has
SeasonIds == {5, 6, 9}
MatchResults == { [runs |-> Num(50), wickets |-> Num(1)],
                  [runs |-> Num(150), wickets |-> Num(0)] }

NextMatchStats ==
  \/ \E s \in Slots : ImportDataStart(s, SeasonImport)
  \/ \E s \in Slots : ImportDataSettings(s)
  \/ \E s \in Slots, id \in SeasonIds, matchStats \in MatchResults :
       UpdatePlayerStatsStart(s, id, matchStats)
  \/ \E s \in Slots : UpdatePlayerStatsApply(s)
  \/ \E s \in Slots : UpdatePlayerSave(s)
  \/ \E s \in Slots : HistoryRead(s)
  \/ \E s \in Slots : HistoryWrite(s)
  \/ \E s \in Slots : Return(s)

SpecMatchStats == Init /\ [][NextMatchStats]_vars

\* C14: updatePlayerStats with non-negative runs and wickets for a player
\* that is in the roster succeeds; it fails only for an id that is not in the
\* roster.
C14_MatchStatsAccepted ==
  [][\A s \in Slots :
       (/\ procs[s].op = "updatePlayerStats"
        /\ procs[s].pc \in {"apply", "save"}
        /\ procs'[s] # procs[s]
        /\ procs[s].id \in IdsOf(procs[s].response.data))
       => procs'[s].pc \in {"save", "history"}]_vars

\* list `after` is list `before` with x appended, cut to its last 10 entries
AppendedWithin10(before, after, x) ==
  /\ Len(after) = (IF Len(before) < 10 THEN Len(before) + 1 ELSE 10)
  /\ after[Len(after)] = x
  /\ \A k \in 1..(Len(after) - 1) :
       after[k] = before[Len(before) - (Len(after) - 1) + k]

\* C15: when an updatePlayerStats(id, {runs, wickets}) saves, and no other
\* call has written the roster since this call read it, then in the roster
\* getAllPlayers returns the player's matchesPlayed has grown by 1, totalRuns
\* by runs and wickets by wickets, runs and wickets are the last elements of
\* runsPerMatch and wicketsPerMatch, which hold the 10 most recent matches at
\* most, and every other player is as before.
C15_MatchRecorded ==
  [][\A s \in Slots :
       (/\ procs[s].op = "updatePlayerStats"
        /\ procs[s].pc = "save"
        /\ procs'[s].pc = "history"
        /\ procs[s].response.data = Served.data
        /\ procs[s].player = Served.data[FindIndex(Served.data, procs[s].id)])
       => LET before == Served.data
              after == getAllPlayers(localStorage', cache').resp.data
              i == FindIndex(before, procs[s].id)
              runs == procs[s].matchStats.runs
              wickets == procs[s].matchStats.wickets
          IN  /\ procs'[s].result.success
              /\ Len(after) = Len(before)
              /\ \A j \in 1..Len(before) : j # i => after[j] = before[j]
              /\ after[i].id = procs[s].id
              /\ after[i].matchesPlayed.n = before[i].matchesPlayed.n + 1
              /\ after[i].totalRuns.n = before[i].totalRuns.n + runs.n
              /\ after[i].wickets.n = before[i].wickets.n + wickets.n
              /\ AppendedWithin10(before[i].runsPerMatch, after[i].runsPerMatch, runs)
              /\ AppendedWithin10(before[i].wicketsPerMatch,
                                  after[i].wicketsPerMatch, wickets)]_vars

\* two matches were recorded for the player with nine on record: ten are
\* kept, the oldest is gone, and the call has returned success
C15_Witness ==
  /\ localStorage.players # Null
  /\ \E i \in 1..Len(localStorage.players.v) :
       /\ localStorage.players.v[i].id = SeasonedPlayer.id
       /\ localStorage.players.v[i].matchesPlayed = Num(11)
       /\ Len(localStorage.players.v[i].runsPerMatch) = 10
       /\ localStorage.players.v[i].runsPerMatch[1] = Num(20)
  /\ \E s \in Slots :
       /\ procs[s].op = "updatePlayerStats"
       /\ procs[s].pc = "done"
       /\ procs[s].result.success

----------------------------------------------------------------------------
(* Further claims about dataService, checked under Spec.                    *)

\* C16: when a successful addPlayer, updatePlayer or deletePlayer writes its
\* history entry, the stored history afterwards is the stored history before
\* with exactly one entry appended as the newest, whose action and playerId
\* are those of the operation; this holds also when another operation's
\* entry was written since this operation read the history.
C16_OneEntryPerOperation ==
  [][\A s \in Slots :
       (/\ procs[s].pc = "historyWrite"
        /\ procs'[s].pc = "done"
        /\ Len(StoredHistory) < 100)
       => LET after == getHistory(localStorage')
          IN  /\ procs'[s].result.success
              /\ Len(after) = Len(StoredHistory) + 1
              /\ SubSeq(after, 1, Len(StoredHistory)) = StoredHistory
              /\ after[Len(after)].action = procs[s].entry.action
              /\ after[Len(after)].playerId = procs[s].entry.playerId]_vars

----------------------------------------------------------------------------
(* Player ids.  SpecIds runs the roster operations with the inputs that     *)
(* carry ids: an import whose two players have the same id, and an update   *)
(* that sets the id field.                                                  *)

TwinImport ==
  [valid |-> TRUE, version |-> Some("1.0"),
   players |-> Some(<<ImportedPlayer, [ImportedPlayer EXCEPT !.name = <<"M", "S">>]>>),
   settings |-> Null]
IdUpdates == { [id |-> 2], [image |-> "y.png"] }

NextIds ==
  \/ \E s \in Slots : AddPlayerStart(s, ValidNewPlayer)
  \/ \E s \in Slots : AddPlayerSave(s)
  \/ \E s \in Slots, updates \in IdUpdates : UpdatePlayerStart(s, 1, updates)
  \/ \E s \in Slots : UpdatePlayerSave(s)
  \/ \E s \in Slots, id \in PlayerIds : DeletePlayerStart(s, id)
  \/ \E s \in Slots : DeletePlayerSave(s)
  \/ \E s \in Slots, matchStats \in MatchStats : UpdatePlayerStatsStart(s, 1, matchStats)
  \/ \E s \in Slots : UpdatePlayerStatsApply(s)
  \/ \E s \in Slots : HistoryRead(s)
  \/ \E s \in Slots : HistoryWrite(s)
  \/ \E s \in Slots, jsonData \in {ValidImport, TwinImport} : ImportDataStart(s, jsonData)
  \/ \E s \in Slots : ImportDataSettings(s)
  \/ \E s \in Slots : ResetToDefaultsStart(s)
  \/ \E s \in Slots : ResetToDefaultsClear(s)
  \/ \E s \in Slots : Return(s)

SpecIds == Init /\ [][NextIds]_vars

\* C17: no two players of the stored roster have the same id.
C17_UniqueIds ==
  localStorage.players # Null =>
    \A i, j \in 1..Len(localStorage.players.v) :
      i # j => localStorage.players.v[i].id # localStorage.players.v[j].id

----------------------------------------------------------------------------
(* Further claims about dataService, checked under SpecQuota.               *)

\* C18: an unexpired cache entry holds the roster that localStorage holds, so
\* getAllPlayers returns the same players from the cache as it would from
\* localStorage.
C18_CacheMatchesStorage ==
  getFromCache(cache) # Null =>
    /\ localStorage.players # Null
    /\ JsonPlayers(getFromCache(cache).v) = localStorage.players.v
    /\ syncPlayerImages(getFromCache(cache).v) = syncPlayerImages(localStorage.players.v)

----------------------------------------------------------------------------
(* PlayerProvider (PlayerContext.tsx).  provider is the component's React   *)
(* state: players, loading and settings.  An operation of the provider      *)
(* calls the dataService operation of the same slot and, when that has      *)
(* returned, continues with its own setPlayers.  The render that follows a  *)
(* state change and the auto-save effect of that render are taken in the    *)
(* same step as the state change.                                           *)

\* getSettings() on storage ls: [resp, ls] afterwards
getSettings(ls) ==
  IF ls.settings # Null
  THEN [resp |-> OkData(ls.settings.v), ls |-> ls]
  ELSE [resp |-> OkData(defaultSettings), ls |-> saveSettings(ls, defaultSettings)]

\* the auto-save effect for provider state p on storage ls and cache c:
\* [ls, cache] afterwards
AutoSave(ls, c, p) ==
  IF ~p.loading /\ p.settings # Null /\ p.settings.v.autoSave
  THEN LET saved == savePlayers(ls, c, p.players)
       IN  [ls |-> saved.ls, cache |-> saved.cache]
  ELSE [ls |-> ls, cache |-> c]

\* prev.map(p => p.id === id ? data : p)
ReplacePlayer(prev, id, data) ==
  [i \in 1..Len(prev) |-> IF prev[i].id = id THEN data ELSE prev[i]]

\* the provider operation of slot s ends with state p; effect tells whether a
\* dependency of the auto-save effect changed
Rendered(s, p, effect) ==
  /\ provider' = p
  /\ LET saved == IF effect THEN AutoSave(localStorage, cache, p)
                  ELSE [ls |-> localStorage, cache |-> cache]
     IN  /\ localStorage' = saved.ls
         /\ cache' = saved.cache
  /\ procs' = [procs EXCEPT ![s] = Idle]
  /\ UNCHANGED <<statsVars, engineVars, now, nextId, calls, quotaFull, exported>>

\* the provider mounts: useState(initialPlayers), loading, no settings; the
\* load effect runs up to `await Promise.all([...])`
Mount(s) ==
  /\ provider = Null
  /\ procs[s] = Idle
  /\ \A t \in Slots : t < s => procs[t] # Idle
  /\ LET playersResponse == getAllPlayers(localStorage, cache)
         settingsResponse == getSettings(playersResponse.ls)
     IN  /\ localStorage' = settingsResponse.ls
         /\ cache' = playersResponse.cache
         /\ procs' = [procs EXCEPT ![s] =
                        [op |-> "loadData", pc |-> "done",
                         result |-> playersResponse.resp,
                         settings |-> settingsResponse.resp]]
  /\ provider' = [players |-> initialPlayers, loading |-> TRUE, settings |-> Null]
  /\ UNCHANGED <<statsVars, engineVars, now, nextId, calls, quotaFull, exported>>

\* loadData after `await Promise.all([...])`
LoadDataDone(s) ==
  /\ procs[s].op = "loadData"
  /\ procs[s].pc = "done"
  /\ LET playersResponse == procs[s].result
         settingsResponse == procs[s].settings
     IN  Rendered(s, [players |-> IF playersResponse.success
                                  THEN playersResponse.data ELSE provider.players,
                      loading |-> FALSE,
                      settings |-> IF settingsResponse.success
                                   THEN Some(settingsResponse.data)
                                   ELSE provider.settings],
                  TRUE)

\* updateSettings({autoSave})
UpdateSettings(autoSave) ==
  /\ provider # Null
  /\ provider.settings # Null
  /\ provider.settings.v.autoSave # autoSave
  /\ LET updatedSettings == [provider.settings.v EXCEPT !.autoSave = autoSave]
         stored == saveSettings(localStorage, updatedSettings)
         p == IF quotaFull THEN provider
              ELSE [provider EXCEPT !.settings = Some(updatedSettings)]
         saved == AutoSave(stored, cache, p)
     IN  /\ provider' = p
         /\ localStorage' = IF quotaFull THEN stored ELSE saved.ls
         /\ cache' = IF quotaFull THEN cache ELSE saved.cache
  /\ UNCHANGED <<statsVars, engineVars, now, nextId, procs, calls, quotaFull, exported>>

\* refreshData up to `await dataService.getAllPlayers()`
RefreshDataStart(s) ==
  /\ provider # Null
  /\ CanStart(s)
  /\ LET response == getAllPlayers(localStorage, cache)
     IN  /\ localStorage' = response.ls
         /\ cache' = response.cache
         /\ procs' = [procs EXCEPT ![s] =
                        [op |-> "refreshData", pc |-> "done", result |-> response.resp]]
  /\ provider' = [provider EXCEPT !.loading = TRUE]
  /\ calls' = calls + 1
  /\ UNCHANGED <<statsVars, engineVars, now, nextId, quotaFull, exported>>

\* the rest of refreshData; importData returns after it
RefreshDataDone(s) ==
  /\ procs[s].op = "refreshData"
  /\ procs[s].pc = "done"
  /\ LET response == procs[s].result
     IN  Rendered(s, [provider EXCEPT
                        !.players = IF response.success THEN response.data ELSE @,
                        !.loading = FALSE],
                  TRUE)

\* addPlayer after `await dataService.addPlayer(playerData)`
AddPlayerDone(s) ==
  /\ provider # Null
  /\ procs[s].op = "addPlayer"
  /\ procs[s].pc = "done"
  /\ LET response == procs[s].result
     IN  IF response.success
         THEN Rendered(s, [provider EXCEPT !.players = Append(@, response.data)], TRUE)
         ELSE Rendered(s, provider, FALSE)

\* updatePlayer after `await dataService.updatePlayer(id, updates)`, and
\* updateMatchStats after `await dataService.updatePlayerStats(...)`
UpdatePlayerDone(s) ==
  /\ provider # Null
  /\ procs[s].op \in {"updatePlayer", "updatePlayerStats"}
  /\ procs[s].pc = "done"
  /\ LET response == procs[s].result
     IN  IF response.success
         THEN Rendered(s, [provider EXCEPT
                             !.players = ReplacePlayer(@, procs[s].id, response.data)],
                       TRUE)
         ELSE Rendered(s, provider, FALSE)

\* deletePlayer after `await dataService.deletePlayer(id)`
DeletePlayerDone(s) ==
  /\ provider # Null
  /\ procs[s].op = "deletePlayer"
  /\ procs[s].pc = "done"
  /\ LET response == procs[s].result
     IN  IF response.success
         THEN Rendered(s, [provider EXCEPT !.players = WithoutPlayer(@, procs[s].id)],
                       TRUE)
         ELSE Rendered(s, provider, FALSE)

\* importData after `await dataService.importData(jsonData)`: on success it
\* runs refreshData up to `await dataService.getAllPlayers()`
ImportDataDone(s) ==
  /\ provider # Null
  /\ procs[s].op = "importData"
  /\ procs[s].pc = "done"
  /\ IF procs[s].result.success
     THEN LET response == getAllPlayers(localStorage, cache)
          IN  /\ localStorage' = response.ls
              /\ cache' = response.cache
              /\ procs' = [procs EXCEPT ![s] =
                             [op |-> "refreshData", pc |-> "done",
                              result |-> response.resp]]
              /\ provider' = [provider EXCEPT !.loading = TRUE]
              /\ UNCHANGED <<statsVars, engineVars, now, nextId, calls, quotaFull,
                             exported>>
     ELSE Rendered(s, provider, FALSE)

\* resetToDefaults after `await dataService.resetToDefaults()`; setting the
\* state to the array it already holds renders nothing
ResetToDefaultsDone(s) ==
  /\ provider # Null
  /\ procs[s].op = "resetToDefaults"
  /\ procs[s].pc = "done"
  /\ IF procs[s].result.success
     THEN \E sameArray \in IF provider.players = initialPlayers THEN BOOLEAN ELSE {FALSE} :
            Rendered(s, [provider EXCEPT !.players = initialPlayers], ~sameArray)
     ELSE Rendered(s, provider, FALSE)

NextProvider ==
  \/ \E s \in Slots : Mount(s)
  \/ \E s \in Slots : LoadDataDone(s)
  \/ \E autoSave \in BOOLEAN : UpdateSettings(autoSave)
  \/ \E s \in Slots : RefreshDataStart(s)
  \/ \E s \in Slots : RefreshDataDone(s)
  \/ \E s \in Slots : provider # Null /\ AddPlayerStart(s, ValidNewPlayer)
  \/ \E s \in Slots : AddPlayerSave(s)
  \/ \E s \in Slots : AddPlayerDone(s)
  \/ \E s \in Slots : provider # Null /\ UpdatePlayerStart(s, 1, [image |-> "y.png"])
  \/ \E s \in Slots : UpdatePlayerSave(s)
  \/ \E s \in Slots, matchStats \in MatchStats :
       provider # Null /\ UpdatePlayerStatsStart(s, 1, matchStats)
  \/ \E s \in Slots : UpdatePlayerStatsApply(s)
  \/ \E s \in Slots : UpdatePlayerDone(s)
  \/ \E s \in Slots, id \in PlayerIds : provider # Null /\ DeletePlayerStart(s, id)
  \/ \E s \in Slots : DeletePlayerSave(s)
  \/ \E s \in Slots : DeletePlayerDone(s)
  \/ \E s \in Slots : HistoryRead(s)
  \/ \E s \in Slots : HistoryWrite(s)
  \/ \E s \in Slots : provider # Null /\ ImportDataStart(s, ValidImport)
  \/ \E s \in Slots : ImportDataSettings(s)
  \/ \E s \in Slots : ImportDataDone(s)
  \/ \E s \in Slots : provider # Null /\ ResetToDefaultsStart(s)
  \/ \E s \in Slots : ResetToDefaultsClear(s)
  \/ \E s \in Slots : ResetToDefaultsDone(s)
  \/ Tick

SpecProvider == Init /\ [][NextProvider]_vars

\* the ids and statistics of a roster, in its order
Statistics(players) ==
  [i \in 1..Len(players) |->
     [f \in DOMAIN players[i] \ {"name", "role", "image"} |-> players[i][f]]]

\* the initial load has completed and no provider operation is in flight
Settled ==
  /\ provider # Null
  /\ ~provider.loading
  /\ \A s \in Slots : procs[s] = Idle

\* C19: once the initial load has completed and no provider operation is in
\* flight, the provider's players are the players of the stored roster, with
\* the same ids and the same statistics.
C19_ProviderMatchesStorage ==
  Settled =>
    /\ localStorage.players # Null
    /\ Statistics(JsonPlayers(provider.players)) = Statistics(localStorage.players.v)

\* the same under autoSave: the auto-save effect has written the provider's
\* players to localStorage
C19_WithAutoSave ==
  (Settled /\ provider.settings.v.autoSave) =>
    /\ localStorage.players # Null
    /\ Statistics(JsonPlayers(provider.players)) = Statistics(localStorage.players.v)

====
